---- MODULE Spec2Model ----
(***************************************************************************)
(* Model of the editing core of aied: the text Buffer (package buffer),   *)
(* the ex command executor (package commands) and the mode state machine  *)
(* (package modes).                                                        *)
(*                                                                         *)
(* A Go string is a byte sequence: a line is modelled as a sequence of     *)
(* byte tokens and every len()/slice of the source is a byte length/slice. *)
(* A rune is inserted as its UTF-8 encoding (string(ch)), one or two       *)
(* bytes in this model.  Cursor positions are 0-based as in the source.    *)
(***************************************************************************)
EXTENDS Integers, Sequences, FiniteSets, TLC

VARIABLES
    lines,      \* Buffer.lines
    cursor,     \* Buffer.cursor
    filename,   \* Buffer.filename
    modified,   \* Buffer.modified
    disk,       \* the files: path -> content written, or NoFile
    lastOp,     \* the Buffer operation called last
    lastErr,    \* the error it returned ("" is nil)
    pc,         \* position in a two-call scenario; "run" or "panic" in the editor
    orig,       \* the buffer a scenario started from
    callArgs,   \* the arguments of the calls a scenario has made, in order
    currentMode,        \* ModeManager.currentMode, as the type of the mode
    modes,              \* ModeManager.modes: the types of the registered modes
    gPrefix,            \* NormalMode.gPrefix
    startPos,           \* VisualMode.startPos
    commandLine,        \* CommandMode.commandLine
    message,            \* CommandMode.message
    lspManager,         \* InsertMode.lspManager is not nil
    showingCompletion,  \* InsertMode.showingCompletion
    completions,        \* InsertMode.completions: the insert text of each item
    selectedIndex,      \* InsertMode.selectedIndex
    commands,           \* CommandRegistry.commands: key -> command
    providers,          \* AIManager.providers: name -> provider
    activeProvider,     \* AIManager.activeProvider ("" is none)
    resultExitEditor,   \* main: result.ExitEditor of the last HandleInput
    savedContent,       \* the content at the last load or successful save
    mu,                 \* lsp Client.mu: the goroutine that holds it ("" is none)
    initialized,        \* lsp Client.initialized
    serverUp,           \* the language server runs and its connection is open
    lspPc,              \* where each goroutine stands: caller, conn, main
    params,             \* the diagnostics of the notification being handled
    diagnosticsCache,   \* main: diagnosticsCache[buf.Filename()], or "none"
    bufDiagnostics,     \* what the loop last handed to buf.SetDiagnostics
    overlap             \* a write of the cache met the read in progress

bufvars == <<lines, cursor, filename, modified>>
modevars == <<currentMode, modes, gPrefix, startPos, commandLine, message,
              lspManager, showingCompletion, completions, selectedIndex>>
vars == <<lines, cursor, filename, modified, disk, lastOp, lastErr, pc, orig, callArgs,
          currentMode, modes, gPrefix, startPos, commandLine, message,
          lspManager, showingCompletion, completions, selectedIndex,
          commands, providers, activeProvider,
          resultExitEditor, savedContent,
          mu, initialized, serverUp, lspPc, params, diagnosticsCache,
          bufDiagnostics, overlap>>
\* the language server client and the goroutines around it
lspvars == <<mu, initialized, serverUp, lspPc, params, diagnosticsCache,
             bufDiagnostics, overlap>>
\* the state outside the buffer and the modes
svcvars == <<commands, providers, activeProvider,
          resultExitEditor, savedContent,
            mu, initialized, serverUp, lspPc, params, diagnosticsCache,
            bufDiagnostics, overlap>>

(***************************************************************************)
(* Bounds of the model.                                                    *)
(***************************************************************************)
\* most lines a buffer of a stored state holds
MaxLines == 3
\* most bytes (over all lines) a buffer of a stored state holds
MaxBytes == 3

(***************************************************************************)
(* Runes and bytes.                                                        *)
(***************************************************************************)
\* the runes typed as text: a letter and a blank
TextRunes == {"a", " "}

\* the runes handed to InsertChar in the scenarios: the above and U+00E9,
\* which is two bytes in UTF-8 (0xC3 0xA9)
ScenarioRunes == TextRunes \cup {"eacute"}

\* string(ch): the UTF-8 encoding of a rune
Encode(ch) == IF ch = "eacute" THEN <<"C3", "A9">> ELSE <<ch>>

\* the string whose characters are the runes s
RECURSIVE EncodeAll(_)
EncodeAll(s) == IF s = <<>> THEN <<>> ELSE Encode(Head(s)) \o EncodeAll(Tail(s))

\* the bytes of the lines of a buffer that is loaded
LineBytes == {"a", " "}

\* the file names used
Paths == {"f"}

(***************************************************************************)
(* Go slicing and small helpers.                                           *)
(***************************************************************************)
\* s[lo:hi] of a Go string or slice (0-based, hi exclusive)
Slice(s, lo, hi) == SubSeq(s, lo + 1, hi)

\* s[lo:]
SliceFrom(s, lo) == SubSeq(s, lo + 1, Len(s))

Pos(l, c) == [line |-> l, col |-> c]

RECURSIVE SumLen(_)
SumLen(ls) == IF ls = <<>> THEN 0 ELSE Len(Head(ls)) + SumLen(Tail(ls))

(***************************************************************************)
(* package buffer.  Every operation is a function from a Buffer value (and *)
(* its arguments) to the Buffer after the call and the error it returns    *)
(* ("" is a nil error).                                                    *)
(***************************************************************************)
Ret(b, e) == [b |-> b, err |-> e]

New == [lines |-> << <<>> >>, cursor |-> Pos(0, 0), filename |-> "", modified |-> FALSE]

LineCount(b) == Len(b.lines)

\* b.lines[i]
LineAt(b, i) == b.lines[i + 1]

CurrentLine(b) ==
    IF b.cursor.line >= 0 /\ b.cursor.line < Len(b.lines)
    THEN LineAt(b, b.cursor.line)
    ELSE <<>>

\* SetCursor that clamps the column to the line the cursor is leaving
SetCursorClampToOldLine(b, pos) ==
    LET l == IF pos.line < 0 THEN 0
             ELSE IF pos.line >= Len(b.lines) THEN Len(b.lines) - 1
             ELSE pos.line
        lineLen == Len(b.lines[b.cursor.line + 1])
        c == IF pos.col < 0 THEN 0
             ELSE IF pos.col > lineLen THEN lineLen
             ELSE pos.col
    IN [b EXCEPT !.cursor = Pos(l, c)]

SetCursor(b, pos) ==
    LET l == IF pos.line < 0 THEN 0
             ELSE IF pos.line >= Len(b.lines) THEN Len(b.lines) - 1
             ELSE pos.line
        lineLen == Len(b.lines[l + 1])
        c == IF pos.col < 0 THEN 0
             ELSE IF pos.col > lineLen THEN lineLen
             ELSE pos.col
    IN [b EXCEPT !.cursor = Pos(l, c)]

MoveCursor(b, deltaLine, deltaCol) ==
    SetCursor(b, Pos(b.cursor.line + deltaLine, b.cursor.col + deltaCol))

InsertChar(b, ch) ==
    IF b.cursor.line < 0 \/ b.cursor.line >= Len(b.lines) THEN Ret(b, "range")
    ELSE LET line == LineAt(b, b.cursor.line) IN
         IF b.cursor.col < 0 \/ b.cursor.col > Len(line) THEN Ret(b, "range")
         ELSE LET newLine == Slice(line, 0, b.cursor.col) \o Encode(ch)
                                \o SliceFrom(line, b.cursor.col)
              IN Ret([b EXCEPT !.lines[b.cursor.line + 1] = newLine,
                               !.cursor.col = b.cursor.col + 1,
                               !.modified = TRUE], "")

\* DeleteChar that marks the buffer modified before it checks the column
DeleteCharMarksModified(b) ==
    IF b.cursor.line < 0 \/ b.cursor.line >= Len(b.lines) THEN Ret(b, "range")
    ELSE LET line == LineAt(b, b.cursor.line) IN
         IF b.cursor.col < 0 \/ b.cursor.col >= Len(line)
         THEN Ret([b EXCEPT !.modified = TRUE], "range")
         ELSE LET newLine == Slice(line, 0, b.cursor.col)
                                \o SliceFrom(line, b.cursor.col + 1)
              IN Ret([b EXCEPT !.lines[b.cursor.line + 1] = newLine,
                               !.modified = TRUE], "")

DeleteChar(b) ==
    IF b.cursor.line < 0 \/ b.cursor.line >= Len(b.lines) THEN Ret(b, "range")
    ELSE LET line == LineAt(b, b.cursor.line) IN
         IF b.cursor.col < 0 \/ b.cursor.col >= Len(line) THEN Ret(b, "range")
         ELSE LET newLine == Slice(line, 0, b.cursor.col)
                                \o SliceFrom(line, b.cursor.col + 1)
              IN Ret([b EXCEPT !.lines[b.cursor.line + 1] = newLine,
                               !.modified = TRUE], "")

\* Backspace that merges two lines as JoinLines does, with a blank between
BackspaceMergeSep(b) ==
    IF b.cursor.line < 0 \/ b.cursor.line >= Len(b.lines) THEN Ret(b, "range")
    ELSE IF b.cursor.col = 0 THEN
         IF b.cursor.line = 0 THEN Ret(b, "start")
         ELSE LET l == b.cursor.line
                  currentLine == LineAt(b, l)
                  prevLineLen == Len(LineAt(b, l - 1))
                  merged == [b.lines EXCEPT ![l] = @ \o <<" ">> \o currentLine]
              IN Ret([b EXCEPT !.lines = Slice(merged, 0, l) \o SliceFrom(merged, l + 1),
                               !.cursor = Pos(l - 1, prevLineLen),
                               !.modified = TRUE], "")
    ELSE LET line == LineAt(b, b.cursor.line) IN
         IF b.cursor.col < 0 \/ b.cursor.col > Len(line) THEN Ret(b, "panic")
         ELSE LET newLine == Slice(line, 0, b.cursor.col - 1)
                                \o SliceFrom(line, b.cursor.col)
              IN Ret([b EXCEPT !.lines[b.cursor.line + 1] = newLine,
                               !.cursor.col = b.cursor.col - 1,
                               !.modified = TRUE], "")

\* the slice expressions of the source panic when the column lies outside
\* the line; Backspace does not check the column
\* Backspace that leaves the cursor at the start of the merged line
BackspaceMergeCursorAtStart(b) ==
    IF b.cursor.line < 0 \/ b.cursor.line >= Len(b.lines) THEN Ret(b, "range")
    ELSE IF b.cursor.col = 0 THEN
         IF b.cursor.line = 0 THEN Ret(b, "start")
         ELSE LET l == b.cursor.line
                  currentLine == LineAt(b, l)
                  prevLineLen == Len(LineAt(b, l - 1))
                  merged == [b.lines EXCEPT ![l] = @ \o currentLine]
              IN Ret([b EXCEPT !.lines = Slice(merged, 0, l) \o SliceFrom(merged, l + 1),
                               !.cursor = Pos(l - 1, 0),
                               !.modified = TRUE], "")
    ELSE LET line == LineAt(b, b.cursor.line) IN
         IF b.cursor.col < 0 \/ b.cursor.col > Len(line) THEN Ret(b, "panic")
         ELSE LET newLine == Slice(line, 0, b.cursor.col - 1)
                                \o SliceFrom(line, b.cursor.col)
              IN Ret([b EXCEPT !.lines[b.cursor.line + 1] = newLine,
                               !.cursor.col = b.cursor.col - 1,
                               !.modified = TRUE], "")

Backspace(b) ==
    IF b.cursor.line < 0 \/ b.cursor.line >= Len(b.lines) THEN Ret(b, "range")
    ELSE IF b.cursor.col = 0 THEN
         IF b.cursor.line = 0 THEN Ret(b, "start")
         ELSE LET l == b.cursor.line
                  currentLine == LineAt(b, l)
                  prevLineLen == Len(LineAt(b, l - 1))
                  merged == [b.lines EXCEPT ![l] = @ \o currentLine]
              IN Ret([b EXCEPT !.lines = Slice(merged, 0, l) \o SliceFrom(merged, l + 1),
                               !.cursor = Pos(l - 1, prevLineLen),
                               !.modified = TRUE], "")
    ELSE LET line == LineAt(b, b.cursor.line) IN
         IF b.cursor.col < 0 \/ b.cursor.col > Len(line) THEN Ret(b, "panic")
         ELSE LET newLine == Slice(line, 0, b.cursor.col - 1)
                                \o SliceFrom(line, b.cursor.col)
              IN Ret([b EXCEPT !.lines[b.cursor.line + 1] = newLine,
                               !.cursor.col = b.cursor.col - 1,
                               !.modified = TRUE], "")

\* InsertLine that leaves the whole line above and opens an empty line below
InsertLineBelowWhole(b) ==
    IF b.cursor.line < 0 \/ b.cursor.line >= Len(b.lines) THEN Ret(b, "range")
    ELSE LET l == b.cursor.line
             currentLine == LineAt(b, l)
         IN
         IF b.cursor.col < 0 \/ b.cursor.col > Len(currentLine) THEN Ret(b, "range")
         ELSE LET newLines == Slice(b.lines, 0, l) \o <<currentLine, <<>> >>
                                 \o SliceFrom(b.lines, l + 1)
              IN Ret([b EXCEPT !.lines = newLines,
                               !.cursor = Pos(l + 1, 0),
                               !.modified = TRUE], "")

InsertLine(b) ==
    IF b.cursor.line < 0 \/ b.cursor.line >= Len(b.lines) THEN Ret(b, "range")
    ELSE LET l == b.cursor.line
             currentLine == LineAt(b, l)
         IN
         IF b.cursor.col < 0 \/ b.cursor.col > Len(currentLine) THEN Ret(b, "range")
         ELSE LET leftPart == Slice(currentLine, 0, b.cursor.col)
                  rightPart == SliceFrom(currentLine, b.cursor.col)
                  newLines == Slice(b.lines, 0, l) \o <<leftPart, rightPart>>
                                 \o SliceFrom(b.lines, l + 1)
              IN Ret([b EXCEPT !.lines = newLines,
                               !.cursor = Pos(l + 1, 0),
                               !.modified = TRUE], "")

InsertEmptyLine(b) ==
    IF b.cursor.line < 0 \/ b.cursor.line >= Len(b.lines) THEN Ret(b, "range")
    ELSE LET l == b.cursor.line
             newLines == Slice(b.lines, 0, l) \o << <<>> >> \o SliceFrom(b.lines, l)
         IN Ret([b EXCEPT !.lines = newLines,
                          !.cursor.col = 0,
                          !.modified = TRUE], "")

\* DeleteLine without the final clamp of the column to the new current line
DeleteLineNoClamp(b) ==
    IF Len(b.lines) <= 1
    THEN Ret([b EXCEPT !.lines[1] = <<>>, !.cursor = Pos(0, 0), !.modified = TRUE], "")
    ELSE LET l == b.cursor.line
             newLines == Slice(b.lines, 0, l) \o SliceFrom(b.lines, l + 1)
             nl == IF l >= Len(newLines) THEN Len(newLines) - 1 ELSE l
         IN Ret([b EXCEPT !.lines = newLines, !.cursor = Pos(nl, b.cursor.col),
                          !.modified = TRUE], "")

\* DeleteLine that removes the only line as it removes any other
DeleteLineRemoveSole(b) ==
    LET l == b.cursor.line
        newLines == Slice(b.lines, 0, l) \o SliceFrom(b.lines, l + 1)
    IN Ret([b EXCEPT !.lines = newLines, !.cursor = Pos(0, 0), !.modified = TRUE], "")

\* DeleteLine that leaves the cursor on the line above the one removed
DeleteLineCursorUp(b) ==
    IF Len(b.lines) <= 1
    THEN Ret([b EXCEPT !.lines[1] = <<>>, !.cursor = Pos(0, 0), !.modified = TRUE], "")
    ELSE IF b.cursor.line < 0 \/ b.cursor.line >= Len(b.lines) THEN Ret(b, "range")
    ELSE LET l == b.cursor.line
             newLines == Slice(b.lines, 0, l) \o SliceFrom(b.lines, l + 1)
             nl == IF l > 0 THEN l - 1 ELSE 0
             nc == IF b.cursor.col > Len(newLines[nl + 1])
                   THEN Len(newLines[nl + 1])
                   ELSE b.cursor.col
         IN Ret([b EXCEPT !.lines = newLines,
                          !.cursor = Pos(nl, nc),
                          !.modified = TRUE], "")

DeleteLine(b) ==
    IF Len(b.lines) <= 1
    THEN Ret([b EXCEPT !.lines[1] = <<>>, !.cursor = Pos(0, 0), !.modified = TRUE], "")
    ELSE IF b.cursor.line < 0 \/ b.cursor.line >= Len(b.lines) THEN Ret(b, "range")
    ELSE LET l == b.cursor.line
             newLines == Slice(b.lines, 0, l) \o SliceFrom(b.lines, l + 1)
             nl == IF l >= Len(newLines) THEN Len(newLines) - 1 ELSE l
             nc == IF nl >= 0 /\ nl < Len(newLines) /\ b.cursor.col > Len(newLines[nl + 1])
                   THEN Len(newLines[nl + 1])
                   ELSE b.cursor.col
         IN Ret([b EXCEPT !.lines = newLines,
                          !.cursor = Pos(nl, nc),
                          !.modified = TRUE], "")

\* JoinLines that puts the separator between the lines whatever they hold
JoinLinesAlwaysSep(b) ==
    IF b.cursor.line < 0 \/ b.cursor.line >= Len(b.lines) - 1 THEN Ret(b, "nonext")
    ELSE LET l == b.cursor.line
             newLines == Slice(b.lines, 0, l)
                            \o << LineAt(b, l) \o <<" ">> \o LineAt(b, l + 1) >>
                            \o SliceFrom(b.lines, l + 2)
         IN Ret([b EXCEPT !.lines = newLines, !.modified = TRUE], "")

\* JoinLines that moves the cursor to the place where the lines were joined
JoinLinesCursorToJoint(b) ==
    IF b.cursor.line < 0 \/ b.cursor.line >= Len(b.lines) - 1 THEN Ret(b, "nonext")
    ELSE LET l == b.cursor.line
             currentLine == LineAt(b, l)
             nextLine == LineAt(b, l + 1)
             separator == IF Len(currentLine) > 0 /\ Len(nextLine) > 0
                          THEN <<" ">> ELSE <<>>
             newLines == Slice(b.lines, 0, l)
                            \o << currentLine \o separator \o nextLine >>
                            \o SliceFrom(b.lines, l + 2)
         IN Ret([b EXCEPT !.lines = newLines, !.cursor = Pos(l, Len(currentLine)),
                          !.modified = TRUE], "")

JoinLines(b) ==
    IF b.cursor.line < 0 \/ b.cursor.line >= Len(b.lines) - 1 THEN Ret(b, "nonext")
    ELSE LET l == b.cursor.line
             currentLine == LineAt(b, l)
             nextLine == LineAt(b, l + 1)
             separator == IF Len(currentLine) > 0 /\ Len(nextLine) > 0
                          THEN <<" ">> ELSE <<>>
             newLines == Slice(b.lines, 0, l)
                            \o << currentLine \o separator \o nextLine >>
                            \o SliceFrom(b.lines, l + 2)
         IN Ret([b EXCEPT !.lines = newLines, !.modified = TRUE], "")

\* strings.Join(b.lines, "\n")
RECURSIVE JoinNL(_)
JoinNL(ls) ==
    IF Len(ls) = 0 THEN <<>>
    ELSE IF Len(ls) = 1 THEN ls[1]
    ELSE ls[1] \o <<"LF">> \o JoinNL(Tail(ls))

String(b) == JoinNL(b.lines)

NoFile == "NoFile"
\* no file exists
NoDisk == [p \in Paths |-> NoFile]

\* The outcomes of the file system calls of SaveAs: os.Create fails, or
\* WriteString fails after Create truncated the file, or both succeed.
SaveOutcomes == {"ok", "createfail", "writefail"}

\* SaveAs that leaves the modified flag as it is
SaveAsKeepsModified(b, fname, d, io) ==
    IF fname = "" THEN [b |-> b, err |-> "empty", disk |-> d]
    ELSE IF io = "createfail" THEN [b |-> b, err |-> "create", disk |-> d]
    ELSE IF io = "writefail"
         THEN [b |-> b, err |-> "write", disk |-> [d EXCEPT ![fname] = <<>>]]
    ELSE [b |-> [b EXCEPT !.filename = fname],
          err |-> "",
          disk |-> [d EXCEPT ![fname] = String(b)]]

\* SaveAs that clears the modified flag although the write failed
SaveAsClearsOnFailure(b, fname, d, io) ==
    IF fname = "" THEN [b |-> b, err |-> "empty", disk |-> d]
    ELSE IF io = "createfail" THEN [b |-> b, err |-> "create", disk |-> d]
    ELSE IF io = "writefail"
         THEN [b |-> [b EXCEPT !.modified = FALSE], err |-> "write",
               disk |-> [d EXCEPT ![fname] = <<>>]]
    ELSE [b |-> [b EXCEPT !.filename = fname, !.modified = FALSE],
          err |-> "",
          disk |-> [d EXCEPT ![fname] = String(b)]]

\* SaveAs returns the buffer, the error and the files after the call
SaveAs(b, fname, d, io) ==
    IF fname = "" THEN [b |-> b, err |-> "empty", disk |-> d]
    ELSE IF io = "createfail" THEN [b |-> b, err |-> "create", disk |-> d]
    ELSE IF io = "writefail"
         THEN [b |-> b, err |-> "write", disk |-> [d EXCEPT ![fname] = <<>>]]
    ELSE [b |-> [b EXCEPT !.filename = fname, !.modified = FALSE],
          err |-> "",
          disk |-> [d EXCEPT ![fname] = String(b)]]

Save(b, d, io) ==
    IF b.filename = "" THEN [b |-> b, err |-> "nofilename", disk |-> d]
    ELSE SaveAs(b, b.filename, d, io)

\* bufio.ScanLines drops one trailing carriage return of a line
DropCR(data) ==
    IF Len(data) > 0 /\ data[Len(data)] = "CR" THEN Slice(data, 0, Len(data) - 1)
    ELSE data

\* index (1-based) of the first LF of data, 0 when there is none
RECURSIVE IndexLF(_, _)
IndexLF(data, i) ==
    IF i > Len(data) THEN 0
    ELSE IF data[i] = "LF" THEN i
    ELSE IndexLF(data, i + 1)

\* ScanLines that yields only the lines an LF terminates
RECURSIVE ScanLinesTerminated(_)
ScanLinesTerminated(data) ==
    LET i == IndexLF(data, 1) IN
    IF i = 0 THEN <<>>
    ELSE << DropCR(SubSeq(data, 1, i - 1)) >>
            \o ScanLinesTerminated(SubSeq(data, i + 1, Len(data)))

\* the tokens bufio.Scanner yields with the default split function ScanLines:
\* no token at end of input, a line up to each LF, and the unterminated rest
RECURSIVE ScanLines(_)
ScanLines(data) ==
    IF Len(data) = 0 THEN <<>>
    ELSE LET i == IndexLF(data, 1) IN
         IF i = 0 THEN << DropCR(data) >>
         ELSE << DropCR(SubSeq(data, 1, i - 1)) >> \o ScanLines(SubSeq(data, i + 1, Len(data)))

\* NewFromFile returns the buffer, or an error and no buffer ("open": the
\* file cannot be opened, "read": the scanner reports a read error)
NewFromFile(fname, d, io) ==
    IF d[fname] = NoFile THEN Ret(New, "open")
    ELSE IF io # "ok" THEN Ret(New, "read")
    ELSE LET scanned == ScanLines(d[fname])
             ls == IF Len(scanned) = 0 THEN << <<>> >> ELSE scanned
         IN Ret([lines |-> ls, cursor |-> Pos(0, 0), filename |-> fname,
                 modified |-> FALSE], "")

(***************************************************************************)
(* Package ui: key events.                                                 *)
(***************************************************************************)
\* a KeyEvent that carries a character
Char(r) == [Action |-> "Char", Rune |-> r]
\* a KeyEvent of any other KeyAction
Key(action) == [Action |-> action, Rune |-> ""]

(***************************************************************************)
(* Package commands: the ex commands and their executor.                   *)
(***************************************************************************)
CommandResult(success, msg, exitEditor, switchMode) ==
    [Success |-> success, Message |-> msg,
     ExitEditor |-> exitEditor, SwitchMode |-> switchMode]

\* the command registered under each name and alias by NewCommandRegistry
Registry ==
    (<<"w","r","i","t","e">> :> "write") @@ (<<"w">> :> "write") @@
    (<<"q","u","i","t">> :> "quit") @@ (<<"q">> :> "quit") @@
    (<<"q","u","i","t","!">> :> "quit!") @@ (<<"q","!">> :> "quit!") @@
    (<<"w","q">> :> "wq") @@ (<<"x">> :> "wq") @@ (<<"e","x","i","t">> :> "wq") @@
    (<<"e","d","i","t">> :> "edit") @@ (<<"e">> :> "edit") @@
    (<<"n","e","w">> :> "new") @@ (<<"e","n","e","w">> :> "new") @@
    (<<"a","i","c","o","m","p","l","e","t","e">> :> "ai") @@ (<<"a","i","c">> :> "ai") @@
    (<<"a","i","e","x","p","l","a","i","n">> :> "ai") @@ (<<"a","i","e">> :> "ai") @@
    (<<"a","i","r","e","f","a","c","t","o","r">> :> "ai") @@ (<<"a","i","r">> :> "ai") @@
    (<<"a","i">> :> "ai") @@
    (<<"a","i","p","r","o","v","i","d","e","r">> :> "ai") @@ (<<"a","i","p">> :> "ai")

\* the bytes of the model that unicode.IsSpace takes as white space
AsciiSpaces == {" ", "tab"}

\* strings.TrimSpace
RECURSIVE TrimSpace(_)
TrimSpace(s) ==
    IF s = <<>> THEN s
    ELSE IF Head(s) \in AsciiSpaces THEN TrimSpace(Tail(s))
    ELSE IF s[Len(s)] \in AsciiSpaces THEN TrimSpace(SubSeq(s, 1, Len(s) - 1))
    ELSE s

\* Fields that splits at blanks only
RECURSIVE FieldsAtBlanks(_)
FieldsAtBlanks(s) ==
    IF s = <<>> THEN <<>>
    ELSE IF Head(s) = " " THEN FieldsAtBlanks(Tail(s))
    ELSE LET rest == FieldsAtBlanks(Tail(s)) IN
         IF Len(s) > 1 /\ s[2] # " " THEN <<(<<Head(s)>> \o Head(rest))>> \o Tail(rest)
         ELSE << <<Head(s)>> >> \o rest

\* strings.Fields: the maximal runs of bytes that are not white space
RECURSIVE Fields(_)
Fields(s) ==
    IF s = <<>> THEN <<>>
    ELSE IF Head(s) \in AsciiSpaces THEN Fields(Tail(s))
    ELSE LET rest == Fields(Tail(s)) IN
         IF Len(s) > 1 /\ s[2] \notin AsciiSpaces
         THEN <<(<<Head(s)>> \o Head(rest))>> \o Tail(rest)
         ELSE << <<Head(s)>> >> \o rest

\* ParseCommand: the command name and its arguments, or an error
ParseCommand(cmdLine) ==
    LET trimmed == TrimSpace(cmdLine)
        parts == Fields(trimmed)
    IN IF trimmed = <<>> \/ Len(parts) = 0
       THEN [name |-> <<>>, args |-> <<>>, err |-> "empty command"]
       ELSE [name |-> Head(parts), args |-> Tail(parts), err |-> ""]

\* the file named by an argument: file names are one byte long in this model
PathOf(arg) == IF Len(arg) = 1 THEN arg[1] ELSE "longname"

\* Every Execute returns the buffer it leaves and its CommandResult.  The
\* files a write changes are not part of the editor state.
Done(b, r) == [b |-> b, r |-> r]

\* write that saves under the name the buffer has, whatever its argument
WriteExecuteIgnoresArgument(args, b, io) ==
    IF b.filename = ""
    THEN Done(b, CommandResult(FALSE, "No file name specified", FALSE, FALSE))
    ELSE LET saved == Save(b, NoDisk, io)
         IN IF saved.err # ""
            THEN Done(saved.b, CommandResult(FALSE, "Error writing file", FALSE, FALSE))
            ELSE Done(saved.b, CommandResult(TRUE, "File written", FALSE, FALSE))

WriteExecute(args, b, io) ==
    IF Len(args) = 0 /\ b.filename = ""
    THEN Done(b, CommandResult(FALSE, "No file name specified", FALSE, FALSE))
    ELSE LET saved == IF Len(args) > 0 THEN SaveAs(b, PathOf(args[1]), NoDisk, io)
                      ELSE Save(b, NoDisk, io)
         IN IF saved.err # ""
            THEN Done(saved.b, CommandResult(FALSE, "Error writing file", FALSE, FALSE))
            ELSE Done(saved.b, CommandResult(TRUE, "File written", FALSE, FALSE))

QuitExecuteIgnoresModified(args, b) ==
    Done(b, CommandResult(TRUE, "Goodbye!", TRUE, FALSE))

QuitExecute(args, b) ==
    IF b.modified
    THEN Done(b, CommandResult(FALSE, "Buffer has unsaved changes", FALSE, FALSE))
    ELSE Done(b, CommandResult(TRUE, "Goodbye!", TRUE, FALSE))

ForceQuitExecute(args, b) ==
    Done(b, CommandResult(TRUE, "Goodbye!", TRUE, FALSE))

\* write-quit that asks for the exit whether or not the write succeeded
WriteQuitExecuteExitsAnyway(args, b, io) ==
    LET writeResult == WriteExecute(args, b, io) IN
    Done(writeResult.b,
         CommandResult(TRUE, "File written and editor closed", TRUE, FALSE))

WriteQuitExecute(args, b, io) ==
    LET writeResult == WriteExecute(args, b, io) IN
    IF ~writeResult.r.Success THEN writeResult
    ELSE Done(writeResult.b,
              CommandResult(TRUE, "File written and editor closed", TRUE, FALSE))

\* the file is never loaded: every path ends in a failure message
EditExecute(args, b) ==
    IF Len(args) = 0 /\ b.filename = ""
    THEN Done(b, CommandResult(FALSE, "No file to reload", FALSE, FALSE))
    ELSE IF b.modified
    THEN Done(b, CommandResult(FALSE, "Buffer has unsaved changes", FALSE, FALSE))
    ELSE Done(b, CommandResult(FALSE, "not yet implemented", FALSE, FALSE))

NewExecute(args, b) ==
    IF b.modified
    THEN Done(b, CommandResult(FALSE, "Buffer has unsaved changes", FALSE, FALSE))
    ELSE Done(b, CommandResult(FALSE, "not yet implemented", FALSE, FALSE))

\* the AI commands while no AI manager is set (the package variable
\* aiManager is nil until SetAIManager is called)
AIExecute(args, b) ==
    Done(b, CommandResult(FALSE, "AI manager not initialized", FALSE, TRUE))

\* Execute that returns the result of the command as the command made it
ExecuteAsCommandReturns(cmdLine, b, io) ==
    LET parsed == ParseCommand(cmdLine) IN
    IF parsed.err # ""
    THEN Done(b, CommandResult(FALSE, "Error: empty command", FALSE, TRUE))
    ELSE IF parsed.name \notin DOMAIN Registry
    THEN Done(b, CommandResult(FALSE, "Unknown command", FALSE, TRUE))
    ELSE LET cmd == Registry[parsed.name]
             d == CASE cmd = "write" -> WriteExecute(parsed.args, b, io)
                    [] cmd = "quit" -> QuitExecute(parsed.args, b)
                    [] cmd = "quit!" -> ForceQuitExecute(parsed.args, b)
                    [] cmd = "wq" -> WriteQuitExecute(parsed.args, b, io)
                    [] cmd = "edit" -> EditExecute(parsed.args, b)
                    [] cmd = "new" -> NewExecute(parsed.args, b)
                    [] cmd = "ai" -> AIExecute(parsed.args, b)
         IN d

\* CommandExecutor.Execute
Execute(cmdLine, b, io) ==
    LET parsed == ParseCommand(cmdLine) IN
    IF parsed.err # ""
    THEN Done(b, CommandResult(FALSE, "Error: empty command", FALSE, TRUE))
    ELSE IF parsed.name \notin DOMAIN Registry
    THEN Done(b, CommandResult(FALSE, "Unknown command", FALSE, TRUE))
    ELSE LET cmd == Registry[parsed.name]
             d == CASE cmd = "write" -> WriteExecute(parsed.args, b, io)
                    [] cmd = "quit" -> QuitExecute(parsed.args, b)
                    [] cmd = "quit!" -> ForceQuitExecute(parsed.args, b)
                    [] cmd = "wq" -> WriteQuitExecute(parsed.args, b, io)
                    [] cmd = "edit" -> EditExecute(parsed.args, b)
                    [] cmd = "new" -> NewExecute(parsed.args, b)
                    [] cmd = "ai" -> AIExecute(parsed.args, b)
         IN IF ~d.r.ExitEditor THEN Done(d.b, [d.r EXCEPT !.SwitchMode = TRUE])
            ELSE d

(***************************************************************************)
(* Package modes.  The state of the mode manager and of its modes is a     *)
(* record m: the buffer b and the fields of ModeManager, NormalMode,       *)
(* InsertMode, VisualMode and CommandMode.                                 *)
(***************************************************************************)
ModeNormal == "Normal"
ModeInsert == "Insert"
ModeVisual == "Visual"
ModeCommand == "Command"
\* a nil *ModeType
NoMode == "nil"

ModeResult(switchTo, handled, exitEditor) ==
    [SwitchToMode |-> switchTo, Handled |-> handled, ExitEditor |-> exitEditor]

\* what a handler returns: the state it leaves, its ModeResult, and whether
\* it panicked (an index out of range)
Out(m, res) == [m |-> m, res |-> res, panic |-> FALSE]
Panic(m) == [m |-> m, res |-> ModeResult(NoMode, FALSE, FALSE), panic |-> TRUE]

\* the runes of the model for which unicode.IsSpace holds
UnicodeSpaces == {" ", "tab", "nbsp"}
\* the runes r with r == ' ' || r == '\t'
BlankOrTab == {" ", "tab"}
\* isIdentifierChar on a byte taken as a rune: of the bytes of the model,
\* the letter
isIdentifierChar(r) == r \in {"a"}

\* []rune(line): the runes a byte string decodes to
RECURSIVE Runes(_)
Runes(line) ==
    IF line = <<>> THEN <<>>
    ELSE IF Len(line) >= 2 /\ line[1] = "C3" /\ line[2] = "A9"
         THEN <<"eacute">> \o Runes(Tail(Tail(line)))
    ELSE IF Head(line) \in {"C3", "A9"} THEN <<"RuneError">> \o Runes(Tail(line))
    ELSE <<Head(line)>> \o Runes(Tail(line))

\* for col < len(runes) && cond(runes[col]) { col++ }, where cond is
\* "is a space" (sp = TRUE) or "is not a space" (sp = FALSE) and spaces is
\* the set of runes the mode takes for spaces
RECURSIVE SkipForward(_, _, _, _)
SkipForward(runes, col, sp, spaces) ==
    IF col < Len(runes) /\ ((runes[col + 1] \in spaces) = sp)
    THEN SkipForward(runes, col + 1, sp, spaces)
    ELSE col

\* for col >= 0 && cond(runes[col]) { col-- }; -2 when runes[col] is out of
\* range
RECURSIVE SkipBackward(_, _, _, _)
SkipBackward(runes, col, sp, spaces) ==
    IF col < 0 THEN col
    ELSE IF col >= Len(runes) THEN -2
    ELSE IF (runes[col + 1] \in spaces) = sp
         THEN SkipBackward(runes, col - 1, sp, spaces)
    ELSE col

(* ---- NormalMode ---- *)
moveRight(b) ==
    LET lineLen == Len(CurrentLine(b)) IN
    IF b.cursor.col < lineLen - 1 \/ lineLen = 0 THEN MoveCursor(b, 0, 1) ELSE b

moveToLineStart(b) == SetCursor(b, Pos(b.cursor.line, 0))

moveToLineEnd(b) ==
    LET lineLen == Len(CurrentLine(b))
        endCol == IF lineLen - 1 < 0 THEN 0 ELSE lineLen - 1
    IN SetCursor(b, Pos(b.cursor.line, endCol))

\* for i, ch := range line: the byte index of the first rune that is not a
\* space, 0 when there is none
RECURSIVE FirstNonSpace(_, _)
FirstNonSpace(line, i) ==
    IF i >= Len(line) THEN 0
    ELSE IF i + 1 < Len(line) /\ line[i + 1] = "C3" /\ line[i + 2] = "A9" THEN i
    ELSE IF line[i + 1] \notin UnicodeSpaces THEN i
    ELSE FirstNonSpace(line, i + 1)

moveToFirstNonWhitespace(b) ==
    SetCursor(b, Pos(b.cursor.line, FirstNonSpace(CurrentLine(b), 0)))

\* the word motions of Normal and Visual mode differ in the test for a
\* space and in where b lands on the previous line
WordForward(b, spaces) ==
    LET c == b.cursor
        line == CurrentLine(b)
    IN IF c.col >= Len(line)
       THEN IF c.line < LineCount(b) - 1 THEN SetCursor(b, Pos(c.line + 1, 0)) ELSE b
       ELSE LET runes == Runes(line)
                col == SkipForward(runes, SkipForward(runes, c.col, FALSE, spaces),
                                   TRUE, spaces)
            IN IF col >= Len(runes) /\ c.line < LineCount(b) - 1
               THEN SetCursor(b, Pos(c.line + 1, 0))
               ELSE SetCursor(b, Pos(c.line, col))

\* returns (buffer, error): the error is "panic" when runes[col] is out of
\* range
WordBackward(b, spaces, prevEnd) ==
    LET c == b.cursor IN
    IF c.col <= 0
    THEN IF c.line > 0
         THEN LET prevLine == LineAt(b, c.line - 1)
                  endCol == IF prevEnd = "last"
                            THEN (IF Len(prevLine) - 1 < 0 THEN 0 ELSE Len(prevLine) - 1)
                            ELSE Len(prevLine)
              IN Ret(SetCursor(b, Pos(c.line - 1, endCol)), "")
         ELSE Ret(b, "")
    ELSE LET runes == Runes(CurrentLine(b))
             col1 == SkipBackward(runes, c.col - 1, TRUE, spaces)
             col2 == IF col1 = -2 THEN -2 ELSE SkipBackward(runes, col1, FALSE, spaces)
         IN IF col2 = -2 THEN Ret(b, "panic")
            ELSE Ret(SetCursor(b, Pos(c.line, IF col2 + 1 < 0 THEN 0 ELSE col2 + 1)), "")

WordEnd(b, spaces) ==
    LET c == b.cursor
        runes == Runes(CurrentLine(b))
    IN IF c.col >= Len(runes) - 1
       THEN IF c.line < LineCount(b) - 1
            THEN LET nextRunes == Runes(LineAt(b, c.line + 1))
                     col == SkipForward(nextRunes,
                                        SkipForward(nextRunes, 0, TRUE, spaces),
                                        FALSE, spaces)
                 IN SetCursor(b, Pos(c.line + 1, IF col > 0 THEN col - 1 ELSE col))
            ELSE b
       ELSE LET col == SkipForward(runes,
                                   SkipForward(runes, c.col + 1, TRUE, spaces),
                                   FALSE, spaces)
            IN SetCursor(b, Pos(c.line, IF col > 0 THEN col - 1 ELSE col))

moveWordForward(b) == WordForward(b, UnicodeSpaces)
moveWordBackward(b) == WordBackward(b, UnicodeSpaces, "last")
moveToWordEnd(b) == WordEnd(b, UnicodeSpaces)

\* openLineBelow that does not move to the end of the line first
openLineBelowAtCursor(b) ==
    InsertLine(b).b

openLineBelow(b) ==
    InsertLine(SetCursor(b, Pos(b.cursor.line, Len(CurrentLine(b))))).b

openLineAbove(b) ==
    InsertEmptyLine(SetCursor(b, Pos(b.cursor.line, 0))).b

\* x: the error of DeleteChar is dropped
deleteChar(b) == DeleteChar(b).b

\* X: the error of Backspace is dropped
deleteCharBefore(b) == Backspace(b)

Handled(m, b) == Out([m EXCEPT !.b = b], ModeResult(NoMode, TRUE, FALSE))
Switch(m, b, to) == Out([m EXCEPT !.b = b], ModeResult(to, TRUE, FALSE))
Unhandled(m) == Out(m, ModeResult(NoMode, FALSE, FALSE))

NormalHandleCharacter(m, ch) ==
    LET b == m.b IN
    IF m.gPrefix
    THEN LET n == [m EXCEPT !.gPrefix = FALSE] IN
         IF ch = "g" THEN Handled(n, SetCursor(b, Pos(0, 0))) ELSE Handled(n, b)
    ELSE CASE ch = "h" -> Handled(m, MoveCursor(b, 0, -1))
           [] ch = "j" -> Handled(m, MoveCursor(b, 1, 0))
           [] ch = "k" -> Handled(m, MoveCursor(b, -1, 0))
           [] ch = "l" -> Handled(m, moveRight(b))
           [] ch = "0" -> Handled(m, moveToLineStart(b))
           [] ch = "$" -> Handled(m, moveToLineEnd(b))
           [] ch = "^" -> Handled(m, moveToFirstNonWhitespace(b))
           [] ch = "w" -> Handled(m, moveWordForward(b))
           [] ch = "b" -> LET r == moveWordBackward(b) IN
                          IF r.err = "panic" THEN Panic(m) ELSE Handled(m, r.b)
           [] ch = "e" -> Handled(m, moveToWordEnd(b))
           [] ch = "i" -> Switch(m, b, ModeInsert)
           [] ch = "a" -> Switch(m, moveRight(b), ModeInsert)
           [] ch = "I" -> Switch(m, moveToFirstNonWhitespace(b), ModeInsert)
           [] ch = "A" -> Switch(m, moveToLineEnd(b), ModeInsert)
           [] ch = "o" -> Switch(m, openLineBelow(b), ModeInsert)
           [] ch = "O" -> Switch(m, openLineAbove(b), ModeInsert)
           [] ch = "v" -> Switch(m, b, ModeVisual)
           [] ch = ":" -> Switch(m, b, ModeCommand)
           [] ch = "x" -> Handled(m, deleteChar(b))
           [] ch = "X" -> LET r == deleteCharBefore(b) IN
                          IF r.err = "panic" THEN Panic(m) ELSE Handled(m, r.b)
           [] ch \in {"d", "y", "p", "u"} -> Handled(m, b)
           [] ch = "g" -> Handled([m EXCEPT !.gPrefix = TRUE], b)
           [] OTHER -> Unhandled(m)

NormalHandleInput(m, event) ==
    LET b == m.b
        a == event.Action
    IN CASE a = "Char" -> NormalHandleCharacter(m, event.Rune)
         [] a = "Up" -> Handled(m, MoveCursor(b, -1, 0))
         [] a = "Down" -> Handled(m, MoveCursor(b, 1, 0))
         [] a = "Left" -> Handled(m, MoveCursor(b, 0, -1))
         [] a = "Right" -> Handled(m, moveRight(b))
         [] a = "Home" -> Handled(m, moveToLineStart(b))
         [] a = "End" -> Handled(m, moveToLineEnd(b))
         [] a = "CtrlC" -> Out(m, ModeResult(NoMode, TRUE, TRUE))
         [] OTHER -> Unhandled(m)

NormalOnEnterNoClamp(m) == m

NormalOnEnter(m) ==
    LET lineLen == Len(CurrentLine(m.b)) IN
    IF m.b.cursor.col >= lineLen /\ lineLen > 0
    THEN [m EXCEPT !.b = SetCursor(m.b, Pos(m.b.cursor.line, lineLen - 1))]
    ELSE m

NormalOnExit(m) == m

(* ---- InsertMode ---- *)
hideCompletion(m) ==
    [m EXCEPT !.showingCompletion = FALSE, !.completions = <<>>, !.selectedIndex = 0]

\* items is what lspManager.Completion returns: <<>> stands for an error
\* or an empty list, otherwise the insert texts of the items
triggerCompletion(m, items) ==
    IF m.b.filename = "" THEN m
    ELSE IF Len(items) = 0 THEN hideCompletion(m)
    ELSE [m EXCEPT !.completions = items, !.selectedIndex = 0,
                   !.showingCompletion = TRUE]

\* for wordStart > 0 && isIdentifierChar(rune(line[wordStart-1])) { wordStart-- }
RECURSIVE WordStart(_, _)
WordStart(line, wordStart) ==
    IF wordStart > 0 /\ isIdentifierChar(line[wordStart])
    THEN WordStart(line, wordStart - 1)
    ELSE wordStart

\* n calls of Backspace, their errors dropped
RECURSIVE BackspaceTimes(_, _)
BackspaceTimes(b, n) == IF n <= 0 THEN b ELSE BackspaceTimes(Backspace(b).b, n - 1)

\* InsertChar of every rune of a text, the errors dropped
RECURSIVE InsertChars(_, _)
InsertChars(b, text) ==
    IF text = <<>> THEN b ELSE InsertChars(InsertChar(b, Head(text)).b, Tail(text))

applyCompletion(b, item) ==
    IF item = <<>> THEN b
    ELSE LET wordStart == WordStart(CurrentLine(b), b.cursor.col)
         IN InsertChars(BackspaceTimes(b, b.cursor.col - wordStart), item)

InsertHandleInput(m, event, io, items) ==
    LET b == m.b
        a == event.Action
    IN
    IF m.showingCompletion /\ a = "Up"
    THEN Handled([m EXCEPT !.selectedIndex = IF @ > 0 THEN @ - 1 ELSE @], b)
    ELSE IF m.showingCompletion /\ a = "Down"
    THEN Handled([m EXCEPT !.selectedIndex =
                               IF @ < Len(m.completions) - 1 THEN @ + 1 ELSE @], b)
    ELSE IF m.showingCompletion /\ a \in {"Tab", "Enter"}
    THEN Handled(hideCompletion(m),
                 IF m.selectedIndex < Len(m.completions)
                 THEN applyCompletion(b, m.completions[m.selectedIndex + 1])
                 ELSE b)
    ELSE IF m.showingCompletion /\ a = "Escape"
    THEN Handled(hideCompletion(m), b)
    ELSE CASE a = "Escape" -> Switch(m, b, ModeNormal)
           [] a = "Char" ->
                LET n == [m EXCEPT !.b = InsertChar(b, event.Rune).b] IN
                IF m.lspManager /\ event.Rune \in {".", ":"}
                THEN Out(triggerCompletion(n, items), ModeResult(NoMode, TRUE, FALSE))
                ELSE Out(n, ModeResult(NoMode, TRUE, FALSE))
           [] a = "Backspace" ->
                LET r == Backspace(b) IN
                IF r.err = "panic" THEN Panic(m) ELSE Handled(m, r.b)
           [] a = "Delete" -> Handled(m, DeleteChar(b).b)
           [] a = "Enter" -> Handled(m, InsertLine(b).b)
           [] a = "Tab" -> Handled(m, InsertChars(b, <<" ", " ", " ", " ">>))
           [] a = "Up" -> Handled(m, MoveCursor(b, -1, 0))
           [] a = "Down" -> Handled(m, MoveCursor(b, 1, 0))
           [] a = "Left" -> Handled(m, MoveCursor(b, 0, -1))
           [] a = "Right" -> Handled(m, MoveCursor(b, 0, 1))
           [] a = "Home" -> Handled(m, SetCursor(b, Pos(b.cursor.line, 0)))
           [] a = "End" ->
                Handled(m, SetCursor(b, Pos(b.cursor.line, Len(CurrentLine(b)))))
           [] a = "CtrlC" -> Switch(m, b, ModeNormal)
           [] a = "CtrlS" ->
                Handled(m, IF b.filename # "" THEN Save(b, NoDisk, io).b ELSE b)
           [] a = "CtrlSpace" ->
                IF m.lspManager
                THEN Out(triggerCompletion(m, items), ModeResult(NoMode, TRUE, FALSE))
                ELSE Handled(m, b)
           [] OTHER -> Unhandled(m)

InsertOnEnter(m) == m

InsertOnExit(m) ==
    LET lineLen == Len(CurrentLine(m.b)) IN
    IF m.b.cursor.col > 0 /\ m.b.cursor.col >= lineLen /\ lineLen > 0
    THEN [m EXCEPT !.b = SetCursor(m.b, Pos(m.b.cursor.line, lineLen - 1))]
    ELSE m

(* ---- VisualMode ---- *)
VisualHandleCharacter(m, ch) ==
    LET b == m.b IN
    CASE ch = "h" -> Handled(m, MoveCursor(b, 0, -1))
      [] ch = "j" -> Handled(m, MoveCursor(b, 1, 0))
      [] ch = "k" -> Handled(m, MoveCursor(b, -1, 0))
      [] ch = "l" -> Handled(m, MoveCursor(b, 0, 1))
      [] ch = "0" -> Handled(m, SetCursor(b, Pos(b.cursor.line, 0)))
      [] ch = "$" -> Handled(m, SetCursor(b, Pos(b.cursor.line, Len(CurrentLine(b)))))
      [] ch = "w" -> Handled(m, WordForward(b, BlankOrTab))
      [] ch = "b" -> LET r == WordBackward(b, BlankOrTab, "after") IN
                     IF r.err = "panic" THEN Panic(m) ELSE Handled(m, r.b)
      [] ch = "e" -> Handled(m, WordEnd(b, BlankOrTab))
      [] ch \in {"d", "x", "y"} -> Switch(m, b, ModeNormal)
      [] ch = "i" -> Switch(m, b, ModeInsert)
      [] OTHER -> Unhandled(m)

VisualHandleInput(m, event) ==
    LET b == m.b
        a == event.Action
    IN CASE a = "Escape" -> Switch(m, b, ModeNormal)
         [] a = "Char" -> VisualHandleCharacter(m, event.Rune)
         [] a = "Up" -> Handled(m, MoveCursor(b, -1, 0))
         [] a = "Down" -> Handled(m, MoveCursor(b, 1, 0))
         [] a = "Left" -> Handled(m, MoveCursor(b, 0, -1))
         [] a = "Right" -> Handled(m, MoveCursor(b, 0, 1))
         [] a = "Home" -> Handled(m, SetCursor(b, Pos(b.cursor.line, 0)))
         [] a = "End" ->
              Handled(m, SetCursor(b, Pos(b.cursor.line, Len(CurrentLine(b)))))
         [] a = "CtrlC" -> Switch(m, b, ModeNormal)
         [] OTHER -> Unhandled(m)

\* OnEnter that keeps the anchor of the selection before
VisualOnEnterKeepsAnchor(m) == m

VisualOnEnter(m) == [m EXCEPT !.startPos = m.b.cursor]

VisualOnExit(m) == m

\* GetSelection returns the pair (start, end)
GetSelection(m) ==
    IF m.startPos.line < m.b.cursor.line
        \/ (m.startPos.line = m.b.cursor.line /\ m.startPos.col < m.b.cursor.col)
    THEN <<m.startPos, m.b.cursor>>
    ELSE <<m.b.cursor, m.startPos>>

(* ---- CommandMode ---- *)
executeCommandExitOnFailure(m, io) ==
    IF m.commandLine = <<>> THEN Switch(m, m.b, ModeNormal)
    ELSE LET d == Execute(m.commandLine, m.b, io)
             n == [m EXCEPT !.b = d.b, !.message = d.r.Message, !.commandLine = <<>>]
         IN IF d.r.ExitEditor \/ ~d.r.Success THEN Out(n, ModeResult(NoMode, TRUE, TRUE))
            ELSE IF d.r.SwitchMode THEN Out(n, ModeResult(ModeNormal, TRUE, FALSE))
            ELSE Out(n, ModeResult(NoMode, TRUE, FALSE))

executeCommand(m, io) ==
    IF m.commandLine = <<>> THEN Switch(m, m.b, ModeNormal)
    ELSE LET d == Execute(m.commandLine, m.b, io)
             n == [m EXCEPT !.b = d.b, !.message = d.r.Message, !.commandLine = <<>>]
         IN IF d.r.ExitEditor THEN Out(n, ModeResult(NoMode, TRUE, TRUE))
            ELSE IF d.r.SwitchMode THEN Out(n, ModeResult(ModeNormal, TRUE, FALSE))
            ELSE Out(n, ModeResult(NoMode, TRUE, FALSE))

CommandHandleInput(m, event, io) ==
    LET a == event.Action IN
    CASE a \in {"Escape", "CtrlC"} ->
           Out([m EXCEPT !.commandLine = <<>>, !.message = ""],
               ModeResult(ModeNormal, TRUE, FALSE))
      [] a = "Enter" -> executeCommand(m, io)
      [] a = "Backspace" ->
           Out([m EXCEPT !.commandLine =
                            IF Len(@) > 0 THEN Slice(@, 0, Len(@) - 1) ELSE @],
               ModeResult(NoMode, TRUE, FALSE))
      [] a = "Char" ->
           Out([m EXCEPT !.commandLine = @ \o Encode(event.Rune)],
               ModeResult(NoMode, TRUE, FALSE))
      [] OTHER -> Unhandled(m)

CommandOnEnter(m) == [m EXCEPT !.commandLine = <<>>, !.message = ""]

CommandOnExit(m) == [m EXCEPT !.commandLine = <<>>]

(* ---- ModeManager ---- *)
OnEnter(m, mode) ==
    CASE mode = ModeNormal -> NormalOnEnter(m)
      [] mode = ModeInsert -> InsertOnEnter(m)
      [] mode = ModeVisual -> VisualOnEnter(m)
      [] mode = ModeCommand -> CommandOnEnter(m)

OnExit(m, mode) ==
    CASE mode = ModeNormal -> NormalOnExit(m)
      [] mode = ModeInsert -> InsertOnExit(m)
      [] mode = ModeVisual -> VisualOnExit(m)
      [] mode = ModeCommand -> CommandOnExit(m)

\* SwitchToMode with a buffer: nothing happens when the mode is not
\* registered
SwitchToMode(m, modeType) ==
    IF modeType \in m.modes
    THEN OnEnter([OnExit(m, m.currentMode) EXCEPT !.currentMode = modeType], modeType)
    ELSE m

\* the modes NewModeManager registers
RegisteredByNew == {ModeNormal, ModeInsert, ModeVisual}

\* NewModeManager, with the fields of the modes as their constructors
\* leave them; the switch to Normal is made without a buffer, so no OnEnter
\* runs
NewModeManager(b) ==
    [b |-> b, currentMode |-> ModeNormal, modes |-> RegisteredByNew,
     gPrefix |-> FALSE, startPos |-> Pos(0, 0), commandLine |-> <<>>,
     message |-> "", lspManager |-> FALSE, showingCompletion |-> FALSE,
     completions |-> <<>>, selectedIndex |-> 0]

\* RegisterMode(NewCommandMode())
RegisterMode(m, modeType) == [m EXCEPT !.modes = @ \cup {modeType}]

\* InsertMode.SetLSPManager with a manager that is not nil
SetLSPManager(m) == [m EXCEPT !.lspManager = TRUE]

\* mm.currentMode.HandleInput(event, buf)
ModeHandleInput(m, event, io, items) ==
    CASE m.currentMode = ModeNormal -> NormalHandleInput(m, event)
      [] m.currentMode = ModeInsert -> InsertHandleInput(m, event, io, items)
      [] m.currentMode = ModeVisual -> VisualHandleInput(m, event)
      [] m.currentMode = ModeCommand -> CommandHandleInput(m, event, io)

\* the rest of ModeManager.HandleInput: the switch the result asks for
ApplySwitch(out) ==
    IF ~out.panic /\ out.res.SwitchToMode # NoMode
    THEN [out EXCEPT !.m = SwitchToMode(out.m, out.res.SwitchToMode)]
    ELSE out

\* ModeManager.HandleInput
ManagerHandleInput(m, event, io, items) ==
    ApplySwitch(ModeHandleInput(m, event, io, items))

(***************************************************************************)
(* The buffer of the current state, and the states a stored buffer may be. *)
(***************************************************************************)
Buf == [lines |-> lines, cursor |-> cursor, filename |-> filename, modified |-> modified]

SetBuf(b) ==
    /\ lines' = b.lines
    /\ cursor' = b.cursor
    /\ filename' = b.filename
    /\ modified' = b.modified

SetBufInit(b) ==
    /\ lines = b.lines
    /\ cursor = b.cursor
    /\ filename = b.filename
    /\ modified = b.modified

\* the mode manager and its modes of the current state
Ed ==
    [b |-> Buf, currentMode |-> currentMode, modes |-> modes, gPrefix |-> gPrefix,
     startPos |-> startPos, commandLine |-> commandLine, message |-> message,
     lspManager |-> lspManager, showingCompletion |-> showingCompletion,
     completions |-> completions, selectedIndex |-> selectedIndex]

SetModes(m) ==
    /\ currentMode' = m.currentMode
    /\ modes' = m.modes
    /\ gPrefix' = m.gPrefix
    /\ startPos' = m.startPos
    /\ commandLine' = m.commandLine
    /\ message' = m.message
    /\ lspManager' = m.lspManager
    /\ showingCompletion' = m.showingCompletion
    /\ completions' = m.completions
    /\ selectedIndex' = m.selectedIndex

SetModesInit(m) ==
    /\ currentMode = m.currentMode
    /\ modes = m.modes
    /\ gPrefix = m.gPrefix
    /\ startPos = m.startPos
    /\ commandLine = m.commandLine
    /\ message = m.message
    /\ lspManager = m.lspManager
    /\ showingCompletion = m.showingCompletion
    /\ completions = m.completions
    /\ selectedIndex = m.selectedIndex

\* the bound on stored buffers
Fits(b) == Len(b.lines) <= MaxLines /\ SumLen(b.lines) <= MaxBytes

\* a call of ModeManager.HandleInput has returned out; the buffer it leaves
\* is within the bound while the editor runs on
Returned(out, after) ==
    /\ after = "run" => Fits(out.m.b)
    /\ SetBuf(out.m.b)
    /\ SetModes(out.m)
    /\ pc' = IF out.panic THEN "panic" ELSE after

(***************************************************************************)
(* The command registry.  A command is the record of its Name() and its    *)
(* Aliases(); the registry maps each key to the command stored under it.   *)
(***************************************************************************)
Command(name, aliases) == [name |-> name, aliases |-> aliases]

\* the commands NewCommandRegistry registers, in its order
BuiltinCommands ==
    << Command(<<"w","r","i","t","e">>, << <<"w">> >>),
       Command(<<"q","u","i","t">>, << <<"q">> >>),
       Command(<<"q","u","i","t","!">>, << <<"q","!">> >>),
       Command(<<"w","q">>, << <<"x">>, <<"e","x","i","t">> >>),
       Command(<<"e","d","i","t">>, << <<"e">> >>),
       Command(<<"n","e","w">>, << <<"e","n","e","w">> >>),
       Command(<<"a","i","c","o","m","p","l","e","t","e">>, << <<"a","i","c">> >>),
       Command(<<"a","i","e","x","p","l","a","i","n">>, << <<"a","i","e">> >>),
       Command(<<"a","i","r","e","f","a","c","t","o","r">>, << <<"a","i","r">> >>),
       Command(<<"a","i">>, <<>>),
       Command(<<"a","i","p","r","o","v","i","d","e","r">>, << <<"a","i","p">> >>) >>

\* cr.commands[key] = cmd
PutCommand(cmds, key, cmd) ==
    [k \in DOMAIN cmds \cup {key} |-> IF k = key THEN cmd ELSE cmds[k]]

\* the loop over cmd.Aliases()
RECURSIVE RegisterAliases(_, _, _)
RegisterAliases(cmds, aliases, cmd) ==
    IF aliases = <<>> THEN cmds
    ELSE RegisterAliases(PutCommand(cmds, Head(aliases), cmd), Tail(aliases), cmd)

\* RegisterCommand that leaves a key that is taken to its command
RegisterCommandKeepsFirst(cmds, cmd) ==
    LET new == RegisterAliases(PutCommand(<<>>, cmd.name, cmd), cmd.aliases, cmd)
    IN [k \in DOMAIN cmds \cup DOMAIN new |-> IF k \in DOMAIN cmds THEN cmds[k] ELSE new[k]]

RegisterCommand(cmds, cmd) ==
    RegisterAliases(PutCommand(cmds, cmd.name, cmd), cmd.aliases, cmd)

\* GetCommand: the command and whether the key exists
GetCommand(cmds, name) ==
    IF name \in DOMAIN cmds THEN [cmd |-> cmds[name], exists |-> TRUE]
    ELSE [cmd |-> Command(<<>>, <<>>), exists |-> FALSE]

RECURSIVE RegisterAll(_, _)
RegisterAll(cmds, list) ==
    IF list = <<>> THEN cmds
    ELSE RegisterAll(RegisterCommand(cmds, Head(list)), Tail(list))

NewCommandRegistry == RegisterAll(<<>>, BuiltinCommands)

(***************************************************************************)
(* Package ai.  A provider is the record of its Name(), of what its        *)
(* IsAvailable() answers and of whether its calls return an error.  The    *)
(* manager is the record of AIManager.providers and .activeProvider.       *)
(***************************************************************************)
Provider(name, available, fails) ==
    [name |-> name, available |-> available, fails |-> fails]

fallbackOrder == <<"ollama", "openai", "anthropic", "google">>

NewAIManager == [providers |-> <<>>, activeProvider |-> ""]

RegisterProvider(am, provider) ==
    LET stored == [n \in DOMAIN am.providers \cup {provider.name} |->
                     IF n = provider.name THEN provider ELSE am.providers[n]]
    IN [providers |-> stored,
        activeProvider |-> IF am.activeProvider = "" /\ provider.available
                           THEN provider.name ELSE am.activeProvider]

\* SetActiveProvider: the manager it leaves and the error
SetActiveProvider(am, providerType) ==
    IF providerType \notin DOMAIN am.providers
    THEN [am |-> am, err |-> "not registered"]
    ELSE IF ~am.providers[providerType].available
    THEN [am |-> am, err |-> "not available"]
    ELSE [am |-> [am EXCEPT !.activeProvider = providerType], err |-> ""]

\* the loop of Request over fallbackOrder from its i-th entry: the provider
\* that answered, or none
RECURSIVE TryFallback(_, _)
TryFallback(am, i) ==
    IF i > Len(fallbackOrder) THEN [provider |-> "", err |-> "no available AI providers"]
    ELSE LET providerType == fallbackOrder[i] IN
         IF \/ providerType \notin DOMAIN am.providers
            \/ ~am.providers[providerType].available
            \/ providerType = am.activeProvider
         THEN TryFallback(am, i + 1)
         ELSE IF ~am.providers[providerType].fails
         THEN [provider |-> providerType, err |-> ""]
         ELSE TryFallback(am, i + 1)

\* Request: the provider whose response is returned, or the error
Request(am) ==
    IF /\ am.activeProvider # ""
       /\ am.activeProvider \in DOMAIN am.providers
       /\ am.providers[am.activeProvider].available
       /\ ~am.providers[am.activeProvider].fails
    THEN [provider |-> am.activeProvider, err |-> ""]
    ELSE TryFallback(am, 1)

\* the registry and the AI manager as the constructors leave them, and a
\* language server client as NewClient leaves it, with no goroutine in it
InitManagers ==
    /\ commands = NewCommandRegistry
    /\ providers = NewAIManager.providers
    /\ activeProvider = NewAIManager.activeProvider
    /\ mu = ""
    /\ initialized = FALSE
    /\ serverUp = FALSE
    /\ lspPc = [caller |-> "idle", conn |-> "recv", main |-> "wait"]
    /\ params = "none"
    /\ diagnosticsCache = "none"
    /\ bufDiagnostics = "none"
    /\ overlap = FALSE

\* the same where the event loop does not run
InitServices ==
    /\ InitManagers
    /\ resultExitEditor = FALSE
    /\ savedContent = <<>>

(***************************************************************************)
(* SpecBuf: the Buffer driven through its exported operations, from a new  *)
(* buffer or a buffer loaded from a file.  The files are not tracked here. *)
(***************************************************************************)
\* the file contents a buffer is loaded from
RECURSIVE SeqsUpTo(_, _)
SeqsUpTo(S, n) ==
    IF n = 0 THEN {<<>>}
    ELSE LET shorter == SeqsUpTo(S, n - 1)
         IN shorter \cup {Append(q, x) : q \in {r \in shorter : Len(r) = n - 1}, x \in S}

FileContents == SeqsUpTo(LineBytes \cup {"LF"}, MaxBytes + MaxLines - 1)


\* the positions and deltas handed to SetCursor and MoveCursor
CursorArgs == {Pos(l, c) : l \in -1..MaxLines, c \in -1..(MaxBytes + 1)}
Deltas == {-(MaxBytes + MaxLines), -1, 0, 1, MaxBytes + MaxLines}

InitBuf ==
    /\ \/ SetBufInit(New)
       \/ \E p \in Paths, content \in FileContents :
             LET r == NewFromFile(p, [q \in Paths |-> content], "ok")
             IN Fits(r.b) /\ SetBufInit(r.b)
    /\ disk = NoDisk
    /\ lastOp = "New"
    /\ lastErr = ""
    /\ pc = "buf"
    /\ orig = New
    /\ callArgs = <<>>
    /\ SetModesInit(NewModeManager(New))
    /\ InitServices

\* a call of an operation that returns (buffer, error)
Called(name, r) ==
    /\ Fits(r.b)
    /\ SetBuf(r.b)
    /\ lastOp' = name
    /\ lastErr' = r.err
    /\ UNCHANGED <<disk, pc, orig, callArgs>>
    /\ UNCHANGED modevars
    /\ UNCHANGED svcvars

BufInsertChar == \E ch \in TextRunes : Called("InsertChar", InsertChar(Buf, ch))
BufDeleteChar == Called("DeleteChar", DeleteChar(Buf))
BufBackspace == Called("Backspace", Backspace(Buf))
BufInsertLine == Called("InsertLine", InsertLine(Buf))
BufInsertEmptyLine == Called("InsertEmptyLine", InsertEmptyLine(Buf))
BufDeleteLine == Called("DeleteLine", DeleteLine(Buf))
BufJoinLines == Called("JoinLines", JoinLines(Buf))
BufSetCursor == \E pos \in CursorArgs : Called("SetCursor", Ret(SetCursor(Buf, pos), ""))
BufMoveCursor == \E dl \in Deltas, dc \in Deltas : Called("MoveCursor", Ret(MoveCursor(Buf, dl, dc), ""))

NextBuf ==
    \/ BufInsertChar
    \/ BufDeleteChar
    \/ BufBackspace
    \/ BufInsertLine
    \/ BufInsertEmptyLine
    \/ BufDeleteLine
    \/ BufJoinLines
    \/ BufSetCursor
    \/ BufMoveCursor

SpecBuf == InitBuf /\ [][NextBuf]_vars

(***************************************************************************)
(* SpecRT: two-call scenarios on a buffer.  Init draws any buffer that     *)
(* satisfies the cursor invariant (each is reachable by edit operations);  *)
(* the actions apply InsertChar then Backspace, InsertLine then JoinLines  *)
(* on the first line, or SaveAs then NewFromFile on the file written.      *)
(***************************************************************************)
\* a byte 0x0D may end a line of a loaded or edited buffer
ScenarioBytes == LineBytes \cup {"CR"}

\* the sequences of k lines holding at most n bytes
RECURSIVE LinesOf(_, _)
LinesOf(k, n) ==
    IF k = 0 THEN {<<>>}
    ELSE UNION { { <<first>> \o rest : rest \in LinesOf(k - 1, n - Len(first)) } :
                 first \in SeqsUpTo(ScenarioBytes, n) }

ScenarioBuffers ==
    { [lines |-> ls, cursor |-> Pos(l, c), filename |-> "", modified |-> m] :
        ls \in UNION { LinesOf(k, MaxBytes) : k \in 1..MaxLines },
        l \in 0..(MaxLines - 1), c \in 0..MaxBytes, m \in BOOLEAN }

InitRT ==
    /\ \E b \in ScenarioBuffers :
          /\ b.cursor.line < Len(b.lines)
          /\ b.cursor.col <= Len(LineAt(b, b.cursor.line))
          /\ SetBufInit(b)
          /\ orig = b
    /\ callArgs = <<>>
    /\ disk = NoDisk
    /\ lastOp = "New"
    /\ lastErr = ""
    /\ pc = "start"
    /\ SetModesInit(NewModeManager(New))
    /\ InitServices

Step(from, to, name, r) ==
    /\ pc = from
    /\ pc' = to
    /\ SetBuf(r.b)
    /\ lastOp' = name
    /\ lastErr' = r.err
    /\ UNCHANGED <<orig, callArgs>>
    /\ UNCHANGED modevars
    /\ UNCHANGED svcvars

RTInsertChar ==
    \E ch \in ScenarioRunes :
        Step("start", "inserted", "InsertChar", InsertChar(Buf, ch)) /\ UNCHANGED disk

\* Backspace follows the InsertChar or the InsertLine of the scenario
RTBackspace ==
    \/ Step("inserted", "insbs", "Backspace", Backspace(Buf)) /\ UNCHANGED disk
    \/ Step("split", "splitbs", "Backspace", Backspace(Buf)) /\ UNCHANGED disk

RTInsertLine ==
    Step("start", "split", "InsertLine", InsertLine(Buf)) /\ UNCHANGED disk

\* the cursor is put back on the line that was split, at any column
RTSetCursor ==
    \E c \in 0..MaxBytes :
        Step("split", "onfirst", "SetCursor",
             Ret(SetCursor(Buf, Pos(orig.cursor.line, c)), "")) /\ UNCHANGED disk

RTJoinLines ==
    Step("onfirst", "joined", "JoinLines", JoinLines(Buf)) /\ UNCHANGED disk

RTSaveAs ==
    \E p \in Paths, io \in SaveOutcomes :
        LET r == SaveAs(Buf, p, disk, io)
        IN Step("start", "saved", "SaveAs", r) /\ disk' = r.disk

\* a load that fails returns no buffer
RTNewFromFile ==
    /\ lastErr = ""
    /\ \E io \in {"ok", "fail"} :
          LET r == NewFromFile(filename, disk, io)
          IN Step("saved", IF r.err = "" THEN "loaded" ELSE "noload", "NewFromFile",
                  IF r.err = "" THEN r ELSE Ret(Buf, r.err))
    /\ UNCHANGED disk

NextRT ==
    \/ RTInsertChar
    \/ RTBackspace
    \/ RTInsertLine
    \/ RTSetCursor
    \/ RTJoinLines
    \/ RTSaveAs
    \/ RTNewFromFile

SpecRT == InitRT /\ [][NextRT]_vars

(***************************************************************************)
(* SpecOp: one call of one Buffer operation.  Init draws any buffer that    *)
(* satisfies the cursor invariant, with or without a file name; an action  *)
(* calls one operation on it and records its arguments.                    *)
(***************************************************************************)
\* the sequences of k lines of text holding at most n bytes
RECURSIVE TextLinesOf(_, _)
TextLinesOf(k, n) ==
    IF k = 0 THEN {<<>>}
    ELSE UNION { { <<first>> \o rest : rest \in TextLinesOf(k - 1, n - Len(first)) } :
                 first \in SeqsUpTo(LineBytes, n) }

\* the buffers of at most maxLines lines and maxBytes bytes of text, with the
\* cursor anywhere the invariant allows
TextBuffers(maxLines, maxBytes) ==
    UNION { UNION { { [lines |-> ls, cursor |-> Pos(l, c), filename |-> f,
                       modified |-> md] :
                         c \in 0..Len(ls[l + 1]), f \in {""} \cup Paths,
                         md \in BOOLEAN } :
                    l \in 0..(Len(ls) - 1) } :
            ls \in UNION { TextLinesOf(k, maxBytes) : k \in 1..maxLines } }

InitOp ==
    /\ \E b \in TextBuffers(MaxLines, MaxBytes) :
          /\ SetBufInit(b)
          /\ orig = b
    /\ callArgs = <<>>
    /\ disk = NoDisk
    /\ lastOp = "New"
    /\ lastErr = ""
    /\ pc = "op"
    /\ SetModesInit(NewModeManager(New))
    /\ InitServices

\* the call of an operation with the arguments a: it returns r and leaves
\* the files d
OpCalled(name, a, r, d) ==
    /\ pc = "op"
    /\ pc' = "called"
    /\ SetBuf(r.b)
    /\ lastOp' = name
    /\ lastErr' = r.err
    /\ callArgs' = a
    /\ disk' = d
    /\ UNCHANGED orig
    /\ UNCHANGED modevars
    /\ UNCHANGED svcvars

\* the positions handed to SetCursor: before, on and after the lines and the
\* columns; the deltas handed to MoveCursor
OpCursorArgs == {Pos(l, c) : l \in {-1, 0, 1, MaxLines}, c \in {-1, 0, 1, MaxBytes + 1}}
OpDeltas == {-1, 0, 1}

NextOp ==
    \/ \E ch \in ScenarioRunes :
          OpCalled("InsertChar", <<ch>>, InsertChar(Buf, ch), disk)
    \/ OpCalled("DeleteChar", <<>>, DeleteChar(Buf), disk)
    \/ OpCalled("Backspace", <<>>, Backspace(Buf), disk)
    \/ OpCalled("InsertLine", <<>>, InsertLine(Buf), disk)
    \/ OpCalled("InsertEmptyLine", <<>>, InsertEmptyLine(Buf), disk)
    \/ OpCalled("DeleteLine", <<>>, DeleteLine(Buf), disk)
    \/ OpCalled("JoinLines", <<>>, JoinLines(Buf), disk)
    \/ \E pos \in OpCursorArgs :
          OpCalled("SetCursor", <<pos>>, Ret(SetCursor(Buf, pos), ""), disk)
    \/ \E dl \in OpDeltas, dc \in OpDeltas :
          OpCalled("MoveCursor", <<dl, dc>>, Ret(MoveCursor(Buf, dl, dc), ""), disk)
    \/ \E io \in SaveOutcomes :
          OpCalled("Save", <<io>>, Save(Buf, disk, io), Save(Buf, disk, io).disk)
    \/ \E p \in {""} \cup Paths, io \in SaveOutcomes :
          OpCalled("SaveAs", <<p, io>>, SaveAs(Buf, p, disk, io),
                   SaveAs(Buf, p, disk, io).disk)

SpecOp == InitOp /\ [][NextOp]_vars

(***************************************************************************)
(* SpecType: characters are inserted one by one into a new buffer, as      *)
(* Insert mode does for the keys typed.                                    *)
(***************************************************************************)
\* most characters typed
MaxTyped == 4

InitType ==
    /\ SetBufInit(New)
    /\ orig = New
    /\ callArgs = <<>>
    /\ disk = NoDisk
    /\ lastOp = "New"
    /\ lastErr = ""
    /\ pc = "type"
    /\ SetModesInit(NewModeManager(New))
    /\ InitServices

\* one more call of InsertChar
NextType ==
    /\ pc = "type"
    /\ Len(callArgs) < MaxTyped
    /\ \E ch \in ScenarioRunes :
          /\ SetBuf(InsertChar(Buf, ch).b)
          /\ lastErr' = InsertChar(Buf, ch).err
          /\ callArgs' = Append(callArgs, ch)
    /\ lastOp' = "InsertChar"
    /\ UNCHANGED <<disk, pc, orig>>
    /\ UNCHANGED modevars
    /\ UNCHANGED svcvars

SpecType == InitType /\ [][NextType]_vars

(***************************************************************************)
(* Spec: the editor as it is constructed.  A buffer is created empty or    *)
(* loaded from a file, NewModeManager is called, and key events are handed *)
(* to ModeManager.HandleInput one at a time.  The manager goes on after a  *)
(* result that asks to exit: what the caller does with a result is not     *)
(* part of the manager.  The files a save writes are not followed.         *)
(***************************************************************************)
\* the key actions other than Char; PageUp stands for the actions no mode
\* has a case for
KeyActions ==
    {"Backspace", "Delete", "Enter", "Tab", "Escape", "Up", "Down", "Left",
     "Right", "Home", "End", "CtrlC", "CtrlS", "CtrlSpace", "PageUp"}

\* the characters typed in each mode: the keys the mode has a case for and
\* one it has none for (z), text in Insert mode, and in Command mode the
\* letters of the quit and write commands, a blank and a two-byte character
NormalKeys ==
    {"h", "j", "k", "l", "0", "$", "^", "w", "b", "e", "i", "a", "I", "A", "o",
     "O", "v", ":", "x", "X", "d", "y", "p", "u", "g", "z"}
VisualKeys == {"h", "j", "k", "l", "0", "$", "w", "b", "e", "d", "x", "y", "i", "z"}
CmdRunes == {"q", "w", "!", " ", "eacute"}

KeysIn(mode) ==
    CASE mode = ModeNormal -> NormalKeys
      [] mode = ModeInsert -> TextRunes
      [] mode = ModeVisual -> VisualKeys
      [] mode = ModeCommand -> CmdRunes

Events(mode) == {Char(r) : r \in KeysIn(mode)} \cup {Key(a) : a \in KeyActions}

\* what lspManager.Completion answers: nothing, or two items
CompletionLists == {<<>>, << <<"a">>, <<" ">> >>}

\* the outcomes of the file system and of the language server that an
\* event can meet
IoFor(event) == IF event.Action \in {"Enter", "CtrlS"} THEN SaveOutcomes ELSE {"ok"}
ItemsFor(event) ==
    IF event.Action = "CtrlSpace" \/ event.Rune \in {".", ":"}
    THEN CompletionLists ELSE {<<>>}

Init ==
    /\ \/ SetBufInit(New)
       \/ \E p \in Paths, content \in FileContents :
             LET r == NewFromFile(p, [q \in Paths |-> content], "ok")
             IN Fits(r.b) /\ SetBufInit(r.b)
    /\ SetModesInit(NewModeManager(Buf))
    /\ disk = NoDisk
    /\ lastOp = "New"
    /\ lastErr = ""
    /\ pc = "run"
    /\ orig = New
    /\ callArgs = <<>>
    /\ InitServices

\* one call of ModeManager.HandleInput; a panic ends the process
KeyEvent ==
    /\ pc = "run"
    /\ \E event \in Events(currentMode) :
       \E io \in IoFor(event), items \in ItemsFor(event) :
          Returned(ManagerHandleInput(Ed, event, io, items), "run")
    /\ UNCHANGED <<disk, lastOp, lastErr, orig, callArgs>>
    /\ UNCHANGED svcvars

Next == KeyEvent

Spec == Init /\ [][Next]_vars

(***************************************************************************)
(* SpecKey: one key event on any state of the mode manager.  The state is  *)
(* drawn: a buffer, an active mode and the fields of that mode the         *)
(* handlers read.  The manager may hold Command mode (RegisterMode of      *)
(* NewCommandMode) and the Insert mode an LSP manager (SetLSPManager).     *)
(* VisualMode.startPos is any position a Visual mode that was entered on   *)
(* this buffer may hold; CommandMode.message is read by no handler and is  *)
(* drawn as OnEnter leaves it.                                             *)
(***************************************************************************)
\* the buffers a key event is tried on: the buffers of loaded text, and the
\* buffer of a file that holds one line of words, multi-byte characters
\* included, with the cursor at any byte of it
KeyBuffers ==
    TextBuffers(MaxLines - 1, MaxBytes - 1)
        \cup UNION { { [lines |-> <<EncodeAll(text)>>, cursor |-> Pos(0, c),
                        filename |-> "f", modified |-> FALSE] :
                         c \in 0..Len(EncodeAll(text)) } :
                       text \in SeqsUpTo(ScenarioRunes, MaxBytes) }

\* the command lines that have been typed when the key arrives
TypedCommands ==
    {<<>>, <<"q">>, <<"q", "u", "i", "t">>, <<"q", "!">>, <<"w">>, <<"w", "q">>,
     <<"x">>, <<"z">>, <<" ">>, <<"w", " ", "f">>, <<"C3", "A9">>}

\* the states of the manager and its modes over a buffer
KeyModeStates(b) ==
    LET constructed == NewModeManager(b)
        full == RegisterMode(constructed, ModeCommand)
        popup == << <<"a">>, <<" ">> >>
    IN  { [md EXCEPT !.gPrefix = g] : md \in {constructed, full}, g \in BOOLEAN }
        \cup { [full EXCEPT !.currentMode = ModeInsert, !.lspManager = l] : l \in BOOLEAN }
        \cup { [full EXCEPT !.currentMode = ModeInsert, !.lspManager = TRUE,
                            !.showingCompletion = TRUE, !.completions = popup,
                            !.selectedIndex = i] :
                 i \in IF b.filename = "" THEN {} ELSE {0, 1} }
        \cup UNION { { [full EXCEPT !.currentMode = ModeVisual, !.startPos = Pos(l, c)] :
                         c \in 0..Len(b.lines[l + 1]) } :
                       l \in 0..(Len(b.lines) - 1) }
        \cup { [full EXCEPT !.currentMode = ModeCommand, !.commandLine = line] :
                 line \in TypedCommands }

InitKey ==
    /\ \E b \in KeyBuffers : \E m \in KeyModeStates(b) :
          SetBufInit(b) /\ SetModesInit(m) /\ orig = b
    /\ disk = NoDisk
    /\ lastOp = "New"
    /\ lastErr = ""
    /\ pc = "key"
    /\ callArgs = <<>>
    /\ InitServices

\* the call of ModeManager.HandleInput with an event, recorded with what the
\* file system and the language server answered and with the command line
\* the event met
KeyOnce ==
    /\ pc = "key"
    /\ \E event \in Events(currentMode) :
       \E io \in IoFor(event), items \in ItemsFor(event) :
          /\ Returned(ManagerHandleInput(Ed, event, io, items), "done")
          /\ callArgs' = <<event, io, items, commandLine>>
    /\ UNCHANGED <<disk, lastOp, lastErr, orig>>
    /\ UNCHANGED svcvars

NextKey == KeyOnce

SpecKey == InitKey /\ [][NextKey]_vars

(***************************************************************************)
(* Properties of the Buffer.                                               *)
(***************************************************************************)

\* C1 (SpecBuf): after every Buffer operation, successful or failed, the
\* cursor is on a line of the buffer and its column is within that line:
\* 0 <= cursor.line < lineCount and 0 <= cursor.col <= len(lines[cursor.line]).
CursorInvariant ==
    /\ cursor.line >= 0
    /\ cursor.line < Len(lines)
    /\ cursor.col >= 0
    /\ cursor.col <= Len(lines[cursor.line + 1])

\* DeleteLine removed the last of two lines and left the cursor at the end of
\* the line that remains
DeleteLineClampedCursor ==
    /\ lastOp = "DeleteLine"
    /\ lastErr = ""
    /\ Len(lines) = 1
    /\ Len(lines[1]) > 0
    /\ cursor = Pos(0, Len(lines[1]))

\* C2 (SpecBuf): the buffer always holds at least one line, and DeleteLine on
\* a buffer of one line leaves one empty line.
NonEmptyInvariant ==
    /\ Len(lines) >= 1
    /\ Len(lines) = 1 => DeleteLine(Buf).b.lines = << <<>> >>

\* DeleteLine has left a single empty line
DeleteLineLeftOneEmptyLine ==
    /\ lastOp = "DeleteLine"
    /\ lastErr = ""
    /\ lines = << <<>> >>
    /\ cursor = Pos(0, 0)
    /\ modified

SurvivesScanLines(content) ==
    /\ Len(content) > 0 => content[Len(content)] \notin {"LF", "CR"}
    /\ \A i \in 1..(Len(content) - 1) : ~(content[i] = "CR" /\ content[i + 1] = "LF")

InsertBackspaceInverse ==
    /\ pc = "inserted" => lastErr = ""
    /\ pc = "insbs" => (lastErr = "" /\ lines = orig.lines /\ cursor = orig.cursor)

\* C10 (SpecRT): InsertLine() at column k of line L, then JoinLines() with the
\* cursor on line L, restores the line count; line L is the original line
\* when a half is empty and left + " " + right otherwise; the other lines are
\* unchanged.
SplitJoinInverse ==
    pc = "joined" =>
        LET L == orig.cursor.line
            k == orig.cursor.col
            old == LineAt(orig, L)
            left == Slice(old, 0, k)
            right == SliceFrom(old, k)
        IN /\ lastErr = ""
           /\ Len(lines) = Len(orig.lines)
           /\ lines[L + 1] = IF left = <<>> \/ right = <<>> THEN old
                              ELSE left \o <<" ">> \o right
           /\ \A i \in 1..Len(lines) : i # L + 1 => lines[i] = orig.lines[i]

\* a line between two others was split at its end and joined again
JoinedAfterSplitAtEnd ==
    /\ pc = "joined"
    /\ Len(orig.lines) = 3
    /\ orig.cursor.line = 1
    /\ orig.cursor.col = Len(orig.lines[2])
    /\ orig.cursor.col > 0
    /\ lines = orig.lines

(***************************************************************************)
(* Properties of the commands and the modes.                               *)
(***************************************************************************)

\* the key events of any mode
AnyEvent ==
    {Char(r) : r \in NormalKeys \cup VisualKeys \cup TextRunes \cup CmdRunes}
        \cup {Key(a) : a \in KeyActions}

\* the command a command line names, "" when it names none
CommandOf(cmdLine) ==
    LET parsed == ParseCommand(cmdLine) IN
    IF parsed.err = "" /\ parsed.name \in DOMAIN Registry
    THEN Registry[parsed.name] ELSE ""

\* C3 (SpecKey): when Enter executes quit in Command mode, the command and
\* the mode ask to exit exactly when the buffer is not modified; on a
\* modified buffer the command fails, nothing asks to exit, and Command mode
\* asks for Normal mode, which becomes the active mode:
QuitExitsOnlyUnmodified ==
    (pc = "key" /\ currentMode = ModeCommand /\ CommandOf(commandLine) = "quit") =>
        \A io \in SaveOutcomes :
            LET d == Execute(commandLine, Buf, io)
                out == ManagerHandleInput(Ed, Key("Enter"), io, <<>>)
            IN /\ d.r.ExitEditor = ~modified
               /\ out.res.ExitEditor = ~modified
               /\ modified =>
                     /\ ~d.r.Success
                     /\ d.r.Message = "Buffer has unsaved changes"
                     /\ out.res.SwitchToMode = ModeNormal
                     /\ out.m.currentMode = ModeNormal

\* quit was executed on a modified buffer: it left its message and the
\* editor is in Normal mode
QuitRefusedOnModified ==
    /\ pc = "done"
    /\ message = "Buffer has unsaved changes"
    /\ currentMode = ModeNormal
    /\ modified

\* C4 (Spec), as claimed: when Normal is the active mode, the character ":"
\* makes Command the active mode, with an empty command line:
ColonEntersCommand ==
    currentMode = ModeNormal =>
        LET out == ManagerHandleInput(Ed, Char(":"), "ok", <<>>)
        IN out.m.currentMode = ModeCommand /\ out.m.commandLine = <<>>

\* C5 (SpecKey), as claimed: a key event yields ExitEditor only when it is
\* Enter in Command mode on a quit, force-quit or write-quit command:
ExitOnlyByQuitCommand ==
    pc = "key" =>
        \A event \in AnyEvent : \A io \in IoFor(event), items \in ItemsFor(event) :
            ManagerHandleInput(Ed, event, io, items).res.ExitEditor =>
                /\ currentMode = ModeCommand
                /\ event.Action = "Enter"
                /\ CommandOf(commandLine) \in {"quit", "quit!", "wq"}

\* C5 (SpecKey), amended: a key event yields ExitEditor only when it is
\* Enter in Command mode on a quit, force-quit or write-quit command, or
\* Ctrl-C in Normal mode:
ExitOnlyByQuitCommandOrNormalCtrlC ==
    pc = "key" =>
        \A event \in AnyEvent : \A io \in IoFor(event), items \in ItemsFor(event) :
            ManagerHandleInput(Ed, event, io, items).res.ExitEditor =>
                \/ /\ currentMode = ModeCommand
                   /\ event.Action = "Enter"
                   /\ CommandOf(commandLine) \in {"quit", "quit!", "wq"}
                \/ /\ currentMode = ModeNormal
                   /\ event.Action = "CtrlC"

\* a quit command asked to exit: Command mode keeps its message and stays
\* the active mode
QuitAskedToExit ==
    /\ pc = "done"
    /\ message = "Goodbye!"
    /\ currentMode = ModeCommand

\* C6 (Spec), as claimed: while Normal is the active mode and the current
\* line is not empty, the cursor is on a character of the line:
NormalNeverAfterLastChar ==
    (currentMode = ModeNormal /\ Len(CurrentLine(Buf)) > 0) =>
        cursor.col <= Len(CurrentLine(Buf)) - 1

\* what C7 says of a key: the handler asks for Normal, Normal becomes the
\* active mode, the lines are unchanged and the cursor is on a character
\* of a line that is not empty
LeavesToNormal(action) ==
    LET out == ManagerHandleInput(Ed, Key(action), "ok", <<>>)
        lineLen == Len(CurrentLine(out.m.b))
    IN /\ out.res.SwitchToMode = ModeNormal
       /\ out.m.currentMode = ModeNormal
       /\ out.m.b.lines = lines
       /\ lineLen > 0 => out.m.b.cursor.col <= lineLen - 1

InsertCharsYieldString ==
    pc = "type" =>
        /\ String(Buf) = EncodeAll(callArgs)
        /\ cursor = Pos(0, Len(callArgs))
        /\ callArgs # <<>> => modified

\* the sequence s without its element at index i (0-based)
Without(s, i) == [j \in 1..(Len(s) - 1) |-> IF j <= i THEN s[j] ELSE s[j + 1]]

\* every line but line l (0-based) is as it was before the call
OtherLinesKept(l) ==
    /\ Len(lines) = Len(orig.lines)
    /\ \A i \in 1..Len(lines) : i # l + 1 => lines[i] = orig.lines[i]

InsertLineContract ==
    (pc = "called" /\ lastOp = "InsertLine") =>
        LET L == orig.cursor.line
            k == orig.cursor.col
            n == Len(orig.lines)
        IN /\ lastErr = ""
           /\ Len(lines) = n + 1
           /\ Len(lines[L + 1]) = k
           /\ lines[L + 1] \o lines[L + 2] = orig.lines[L + 1]
           /\ \A i \in 1..L : lines[i] = orig.lines[i]
           /\ \A i \in (L + 2)..n : lines[i + 1] = orig.lines[i]
           /\ cursor = Pos(L + 1, 0)

\* InsertLine split the middle one of three lines between two of its bytes
InsertLineSplitMiddleLine ==
    /\ pc = "called"
    /\ lastOp = "InsertLine"
    /\ Len(orig.lines) = 3
    /\ orig.cursor = Pos(1, 1)
    /\ Len(orig.lines[1]) > 0
    /\ Len(lines) = 4
    /\ Len(lines[2]) = 1
    /\ Len(lines[3]) = 1
    /\ lines[1] = orig.lines[1]
    /\ cursor = Pos(2, 0)

\* the smaller of two integers
Min(x, y) == IF x <= y THEN x ELSE y

\* C14 (SpecOp): DeleteLine() on a buffer of n > 1 lines removes exactly the
\* current line, the others keeping content and order, and leaves
\* cursor.line = min(old line, n-2) and cursor.col = min(old col, length of
\* the new current line); with n = 1 it leaves the one line empty and the
\* cursor at (0,0).
DeleteLineContract ==
    (pc = "called" /\ lastOp = "DeleteLine") =>
        LET L == orig.cursor.line
            k == orig.cursor.col
            n == Len(orig.lines)
        IN /\ lastErr = ""
           /\ n > 1 =>
                /\ Len(lines) = n - 1
                /\ \A i \in 1..L : lines[i] = orig.lines[i]
                /\ \A i \in (L + 1)..(n - 1) : lines[i] = orig.lines[i + 1]
                /\ cursor.line = Min(L, n - 2)
                /\ cursor.col = Min(k, Len(lines[cursor.line + 1]))
           /\ n = 1 => (lines = << <<>> >> /\ cursor = Pos(0, 0))

\* DeleteLine removed the middle one of three lines and the column was
\* clamped to the shorter line that took its place
DeleteLineRemovedMiddle ==
    /\ pc = "called"
    /\ lastOp = "DeleteLine"
    /\ Len(orig.lines) = 3
    /\ orig.cursor = Pos(1, 2)
    /\ Len(orig.lines[3]) = 1
    /\ lines = <<orig.lines[1], orig.lines[3]>>
    /\ cursor = Pos(1, 1)

\* C15 (SpecOp): JoinLines() with the cursor on a line L that has a next line
\* replaces lines L and L+1 by cur + sep + next, where sep is one blank when
\* cur and next are both non-empty and nothing otherwise; the cursor does not
\* move and the other lines are unchanged.  On the last line it fails.
JoinLinesContract ==
    (pc = "called" /\ lastOp = "JoinLines") =>
        LET L == orig.cursor.line
            n == Len(orig.lines)
        IN IF L < n - 1
           THEN LET cur == orig.lines[L + 1]
                    next == orig.lines[L + 2]
                    sep == IF cur # <<>> /\ next # <<>> THEN <<" ">> ELSE <<>>
                IN /\ lastErr = ""
                   /\ Len(lines) = n - 1
                   /\ lines[L + 1] = cur \o sep \o next
                   /\ \A i \in 1..L : lines[i] = orig.lines[i]
                   /\ \A i \in (L + 2)..(n - 1) : lines[i] = orig.lines[i + 1]
                   /\ cursor = orig.cursor
           ELSE lastErr # ""

\* JoinLines joined the first two of three lines, both holding text, with a
\* blank between them and the cursor stayed inside the first
JoinLinesPutBlank ==
    /\ pc = "called"
    /\ lastOp = "JoinLines"
    /\ Len(orig.lines) = 3
    /\ orig.cursor = Pos(0, 0)
    /\ Len(orig.lines[1]) = 1
    /\ Len(orig.lines[2]) = 1
    /\ lines = <<orig.lines[1] \o <<" ">> \o orig.lines[2], orig.lines[3]>>
    /\ cursor = Pos(0, 0)

\* x clamped into lo..hi
Clamp(x, lo, hi) == IF x < lo THEN lo ELSE IF x > hi THEN hi ELSE x

\* buffer after is buffer before with the cursor at pos clamped: the line
\* into the lines of the buffer, the column into that line
ClampedAt(before, pos, after) ==
    /\ after.cursor.line = Clamp(pos.line, 0, Len(before.lines) - 1)
    /\ after.cursor.col = Clamp(pos.col, 0, Len(before.lines[after.cursor.line + 1]))
    /\ after.lines = before.lines
    /\ after.modified = before.modified
    /\ after.filename = before.filename

\* C16 (SpecOp): SetCursor(pos), for positions before, inside and after the
\* buffer, sets cursor.line = clamp(pos.line, 0, lineCount-1) and cursor.col =
\* clamp(pos.col, 0, len(lines[cursor.line])), changes neither the lines nor
\* modified, and a second call with the same pos changes nothing;
\* MoveCursor(dl,dc) is SetCursor(cursor + (dl,dc)).
SetCursorContract ==
    /\ pc = "op" =>
          /\ \A pos \in CursorArgs :
                /\ ClampedAt(Buf, pos, SetCursor(Buf, pos))
                /\ SetCursor(SetCursor(Buf, pos), pos) = SetCursor(Buf, pos)
          /\ \A dl \in Deltas, dc \in Deltas :
                /\ MoveCursor(Buf, dl, dc)
                      = SetCursor(Buf, Pos(cursor.line + dl, cursor.col + dc))
                /\ ClampedAt(Buf, Pos(cursor.line + dl, cursor.col + dc),
                             MoveCursor(Buf, dl, dc))
    /\ (pc = "called" /\ lastOp = "SetCursor") =>
          /\ ClampedAt(orig, callArgs[1], Buf)
          /\ SetCursor(Buf, callArgs[1]) = Buf
    /\ (pc = "called" /\ lastOp = "MoveCursor") =>
          ClampedAt(orig, Pos(orig.cursor.line + callArgs[1],
                              orig.cursor.col + callArgs[2]), Buf)

\* SetCursor was handed a position below the last line and right of every
\* line, and put the cursor at the end of the last line
SetCursorClampedBoth ==
    /\ pc = "called"
    /\ lastOp = "SetCursor"
    /\ callArgs = <<Pos(MaxLines, MaxBytes + 1)>>
    /\ Len(orig.lines) = 2
    /\ orig.cursor = Pos(0, 0)
    /\ Len(orig.lines[2]) = 1
    /\ cursor = Pos(1, 1)
    /\ lines = orig.lines
    /\ modified = orig.modified

\* the operations that edit the text
EditOps ==
    {"InsertChar", "DeleteChar", "Backspace", "InsertLine", "InsertEmptyLine",
     "DeleteLine", "JoinLines"}

\* C17 (SpecOp): a new buffer and a buffer loaded from a file have modified =
\* false; every edit operation that succeeds leaves modified = true; a Save or
\* SaveAs that succeeds leaves modified = false; SetCursor, MoveCursor and
\* every operation that fails leave modified as it was.
ModifiedFlag ==
    /\ ~New.modified
    /\ pc = "called" =>
          /\ (lastErr = "" /\ lastOp \in EditOps) => modified
          /\ (lastErr = "" /\ lastOp \in {"Save", "SaveAs"}) =>
                /\ ~modified
                /\ NewFromFile(filename, disk, "ok").err = ""
                /\ ~NewFromFile(filename, disk, "ok").b.modified
          /\ (lastErr # "" \/ lastOp \in {"SetCursor", "MoveCursor"}) =>
                modified = orig.modified

\* Save wrote a modified buffer to its file and cleared the flag
SaveClearedModified ==
    /\ pc = "called"
    /\ lastOp = "Save"
    /\ lastErr = ""
    /\ orig.modified
    /\ ~modified
    /\ filename \in Paths
    /\ disk[filename] = String(Buf)

(***************************************************************************)
(* Properties of the keys of Normal and Insert mode.                       *)
(***************************************************************************)

\* the operation returned an error and the buffer it leaves is the buffer of
\* the state
FailsUnchanged(r) == r.err # "" /\ r.b = Buf

\* the event is consumed, changes nothing in the buffer and asks for no other
\* mode and no exit
ConsumedAsNoOp(event, io) ==
    LET out == ManagerHandleInput(Ed, event, io, <<>>)
    IN /\ ~out.panic
       /\ out.res = ModeResult(NoMode, TRUE, FALSE)
       /\ out.m.b = Buf
       /\ out.m.currentMode = currentMode

\* C18 (SpecKey): DeleteChar with the cursor at or past the end of the line,
\* Backspace at (0,0), JoinLines on the last line, Save with an empty file
\* name and SaveAs whose creation or write of the file fails each return an
\* error and leave lines, cursor, filename and modified as they were; the key
\* of Normal mode (x, X) and of Insert mode (Delete, Backspace, Ctrl-S) that
\* calls the failing operation is handled, changes nothing in the buffer and
\* leaves the mode as it is.
FailedOperationChangesNothing ==
    pc = "key" =>
        /\ cursor.col >= Len(CurrentLine(Buf)) =>
              /\ FailsUnchanged(DeleteChar(Buf))
              /\ currentMode = ModeNormal => ConsumedAsNoOp(Char("x"), "ok")
              /\ currentMode = ModeInsert => ConsumedAsNoOp(Key("Delete"), "ok")
        /\ cursor = Pos(0, 0) =>
              /\ FailsUnchanged(Backspace(Buf))
              /\ currentMode = ModeNormal => ConsumedAsNoOp(Char("X"), "ok")
              /\ currentMode = ModeInsert => ConsumedAsNoOp(Key("Backspace"), "ok")
        /\ cursor.line = Len(lines) - 1 => FailsUnchanged(JoinLines(Buf))
        /\ filename = "" =>
              \A io \in SaveOutcomes :
                  /\ FailsUnchanged(Save(Buf, disk, io))
                  /\ currentMode = ModeInsert => ConsumedAsNoOp(Key("CtrlS"), io)
        /\ \A io \in {"createfail", "writefail"} :
              /\ \A p \in Paths : FailsUnchanged(SaveAs(Buf, p, disk, io))
              /\ currentMode = ModeInsert => ConsumedAsNoOp(Key("CtrlS"), io)

\* Backspace was pressed in Insert mode at the start of a buffer that holds
\* text, and buffer and mode are as they were
BackspaceAtStartIgnored ==
    /\ pc = "done"
    /\ callArgs[1] = Key("Backspace")
    /\ currentMode = ModeInsert
    /\ orig.cursor = Pos(0, 0)
    /\ Len(orig.lines[1]) > 0
    /\ orig.modified = FALSE
    /\ Buf = orig

\* C19 as claimed (SpecKey): in Normal mode with no g pending, on a line that
\* is not empty and with the cursor on one of its characters (0 <= col <=
\* len-1), the key a moves the cursor to col+1 and asks for Insert mode.
AppendMovesRight ==
    (/\ pc = "key"
     /\ currentMode = ModeNormal
     /\ ~gPrefix
     /\ Len(CurrentLine(Buf)) > 0
     /\ cursor.col <= Len(CurrentLine(Buf)) - 1) =>
        LET out == ManagerHandleInput(Ed, Char("a"), "ok", <<>>)
        IN /\ out.res.SwitchToMode = ModeInsert
           /\ out.m.currentMode = ModeInsert
           /\ out.m.b.cursor = Pos(cursor.line, cursor.col + 1)

\* C20 as claimed (SpecKey): in Normal mode with no g pending, the key A
\* moves the cursor to the end of the current line and asks for Insert mode,
\* and the character typed next makes the line old + c.
AppendAtLineEnd ==
    (pc = "key" /\ currentMode = ModeNormal /\ ~gPrefix) =>
        LET out == ManagerHandleInput(Ed, Char("A"), "ok", <<>>)
        IN /\ out.res.SwitchToMode = ModeInsert
           /\ out.m.currentMode = ModeInsert
           /\ \A c \in TextRunes :
                 LineAt(ManagerHandleInput(out.m, Char(c), "ok", <<>>).m.b, cursor.line)
                     = CurrentLine(Buf) \o Encode(c)

\* the lines with an empty line put in at index i (0-based)
WithEmptyLineAt(ls, i) == SubSeq(ls, 1, i) \o << <<>> >> \o SubSeq(ls, i + 1, Len(ls))

\* C21 (SpecKey): in Normal mode with no g pending and the cursor anywhere on
\* line L, the key o leaves one line more, the new line empty at index L+1,
\* and the cursor at (L+1, 0); the key O leaves one line more, the new line
\* empty at index L, and the cursor at (L, 0); every original line keeps its
\* content and order, and both keys ask for Insert mode.
OpenLineContract ==
    (pc = "key" /\ currentMode = ModeNormal /\ ~gPrefix) =>
        LET below == ManagerHandleInput(Ed, Char("o"), "ok", <<>>)
            above == ManagerHandleInput(Ed, Char("O"), "ok", <<>>)
            L == cursor.line
        IN /\ below.res = ModeResult(ModeInsert, TRUE, FALSE)
           /\ below.m.b.lines = WithEmptyLineAt(lines, L + 1)
           /\ below.m.b.cursor = Pos(L + 1, 0)
           /\ above.res = ModeResult(ModeInsert, TRUE, FALSE)
           /\ above.m.b.lines = WithEmptyLineAt(lines, L)
           /\ above.m.b.cursor = Pos(L, 0)

\* o was pressed with the cursor inside the first of two lines: an empty line
\* lies between them, the cursor is on it and Insert mode is active
OpenedLineBetween ==
    /\ pc = "done"
    /\ callArgs[1] = Char("o")
    /\ currentMode = ModeInsert
    /\ Len(orig.lines) = 2
    /\ orig.cursor = Pos(0, 0)
    /\ Len(orig.lines[1]) = 2
    /\ lines = <<orig.lines[1], <<>>, orig.lines[2]>>
    /\ cursor = Pos(1, 0)

\* a position of the lines ls: a line of ls and a column from 0 to its length
IsPosition(p, ls) ==
    /\ p.line >= 0 /\ p.line < Len(ls)
    /\ p.col >= 0 /\ p.col <= Len(ls[p.line + 1])

\* p is not after q, by line and then by column
NotAfter(p, q) == p.line < q.line \/ (p.line = q.line /\ p.col <= q.col)

\* C22 (SpecKey): the key v in Normal mode with no g pending enters Visual
\* mode with the cursor where it was as the anchor of the selection; whenever
\* Visual mode is active, before a key and after it, the anchor is a position
\* of the buffer, and GetSelection returns the anchor and the cursor as a pair
\* whose first position is not after its second.
VisualAnchorContract ==
    /\ (pc = "key" /\ currentMode = ModeNormal /\ ~gPrefix) =>
           LET entered == ManagerHandleInput(Ed, Char("v"), "ok", <<>>)
           IN /\ ~entered.panic
              /\ entered.m.currentMode = ModeVisual
              /\ entered.m.startPos = cursor
              /\ entered.m.b = Buf
    /\ (pc = "done" /\ currentMode = ModeVisual /\ callArgs[1] = Char("v")) =>
           startPos = orig.cursor
    /\ currentMode = ModeVisual =>
           /\ IsPosition(startPos, lines)
           /\ {GetSelection(Ed)[1], GetSelection(Ed)[2]} = {startPos, cursor}
           /\ NotAfter(GetSelection(Ed)[1], GetSelection(Ed)[2])

\* Visual mode stayed active over the key h, which took the cursor before the
\* anchor: the selection starts at the cursor and ends at the anchor
SelectionBackwards ==
    /\ pc = "done"
    /\ currentMode = ModeVisual
    /\ callArgs[1] = Char("h")
    /\ startPos = orig.cursor
    /\ startPos = Pos(0, 1)
    /\ cursor = Pos(0, 0)
    /\ GetSelection(Ed) = <<cursor, startPos>>

\* C23 (SpecKey): in Normal mode with g pending, one key event of any kind
\* other than the interrupt, which ends the editor, leaves the prefix flag
\* cleared, and the key g among them leaves the cursor at (0,0).
PrefixClearedByNextKey ==
    [][(/\ pc = "key" /\ currentMode = ModeNormal /\ gPrefix
        /\ pc' = "done" /\ callArgs'[1].Action # "CtrlC")
         => /\ ~gPrefix'
            /\ callArgs'[1] = Char("g") => cursor' = Pos(0, 0)]_vars

(***************************************************************************)
(* Properties of the word motions.                                         *)
(***************************************************************************)
\* the bytes of a line that are blanks; the bytes of a multi-byte character
\* are not
BlankBytes == {" "}

\* the first index from i on at which the run of blanks (blank = TRUE) or of
\* non-blanks (blank = FALSE) that starts at i is over, Len(line) when the
\* run goes to the end of the line
PastRun(line, i, blank) ==
    CHOOSE j \in i..Len(line) :
        /\ \A k \in i..(j - 1) : (line[k + 1] \in BlankBytes) = blank
        /\ j = Len(line) \/ (line[j + 1] \in BlankBytes) # blank

\* C24 as claimed (SpecKey): in Normal mode with no g pending and the cursor
\* at (L,c), c < len(line), the key w takes the column past the run of
\* non-blank characters at c and past the blanks after it; when that index
\* is len(line) the cursor becomes (L+1,0) if line L+1 exists and stays on
\* line L if not; otherwise the cursor is at that index, the first character
\* of the next word of line L.
WordForwardContract ==
    (/\ pc = "key" /\ currentMode = ModeNormal /\ ~gPrefix
     /\ cursor.col < Len(lines[cursor.line + 1])) =>
        LET out == ManagerHandleInput(Ed, Char("w"), "ok", <<>>)
            L == cursor.line
            j == PastRun(lines[L + 1], PastRun(lines[L + 1], cursor.col, FALSE), TRUE)
        IN /\ out.res = ModeResult(NoMode, TRUE, FALSE)
           /\ out.m.b.lines = lines
           /\ IF j < Len(lines[L + 1]) THEN out.m.b.cursor = Pos(L, j)
              ELSE IF L + 1 < Len(lines) THEN out.m.b.cursor = Pos(L + 1, 0)
              ELSE out.m.b.cursor.line = L

\* the columns of a line at which a word starts: a non-blank character at
\* column 0 or after a blank
WordStarts(line) ==
    { i \in 0..(Len(line) - 1) :
        /\ line[i + 1] \notin BlankBytes
        /\ i = 0 \/ line[i] \in BlankBytes }

\* C25 as claimed (SpecKey): in Normal mode with no g pending and the cursor
\* at (L,c), the key b with c > 0 leaves the cursor on line L at a column
\* before c, and when a word starts before c, at the start of the last such
\* word; with c = 0 and L > 0 it leaves the cursor on the last character of
\* line L-1 (column 0 when that line is empty); at (0,0) the cursor does not
\* move; no line changes and the mode stays.
WordBackwardContract ==
    (pc = "key" /\ currentMode = ModeNormal /\ ~gPrefix) =>
        LET out == ManagerHandleInput(Ed, Char("b"), "ok", <<>>)
            L == cursor.line
            c == cursor.col
            before == { i \in WordStarts(lines[L + 1]) : i < c }
        IN /\ ~out.panic
           /\ out.res = ModeResult(NoMode, TRUE, FALSE)
           /\ out.m.b.lines = lines
           /\ c > 0 =>
                /\ out.m.b.cursor.line = L
                /\ out.m.b.cursor.col < c
                /\ before # {} =>
                      /\ out.m.b.cursor.col \in before
                      /\ \A i \in before : i <= out.m.b.cursor.col
           /\ (c = 0 /\ L > 0) =>
                out.m.b.cursor = Pos(L - 1, IF Len(lines[L]) = 0 THEN 0
                                            ELSE Len(lines[L]) - 1)
           /\ (c = 0 /\ L = 0) => out.m.b.cursor = cursor

\* the bytes of the model that continue a multi-byte character
ContinuationBytes == {"A9"}

\* the column after the character that starts at column i
NextChar(line, i) == IF line[i + 1] = "C3" THEN i + 2 ELSE i + 1

\* the columns of a line at which a word ends: the column of a non-blank
\* character that is the last of the line or before a blank
WordEnds(line) ==
    { i \in 0..(Len(line) - 1) :
        /\ line[i + 1] \notin BlankBytes \cup ContinuationBytes
        /\ NextChar(line, i) >= Len(line) \/ line[NextChar(line, i) + 1] \in BlankBytes }

\* the column of the last character of a line, 0 when the line is empty
LastChar(line) ==
    IF line = <<>> THEN 0
    ELSE CHOOSE i \in 0..(Len(line) - 1) :
           line[i + 1] \notin ContinuationBytes /\ NextChar(line, i) >= Len(line)

\* C26 as claimed (SpecKey): in Normal mode with no g pending and the cursor
\* at (L,c) before the last character of line L, the key e leaves the cursor
\* on line L at the first column after c at which a word ends; with the
\* cursor at or after the last character of line L and a line L+1 that holds
\* a word, it leaves the cursor on line L+1 at the first column at which a
\* word ends; no line changes and the mode stays.
WordEndContract ==
    (pc = "key" /\ currentMode = ModeNormal /\ ~gPrefix) =>
        LET out == ManagerHandleInput(Ed, Char("e"), "ok", <<>>)
            L == cursor.line
            c == cursor.col
            after == { i \in WordEnds(lines[L + 1]) : i > c }
            next == IF L + 1 < Len(lines) THEN WordEnds(lines[L + 2]) ELSE {}
        IN /\ ~out.panic
           /\ out.res = ModeResult(NoMode, TRUE, FALSE)
           /\ out.m.b.lines = lines
           /\ (c < LastChar(lines[L + 1]) /\ after # {}) =>
                /\ out.m.b.cursor.line = L
                /\ out.m.b.cursor.col \in after
                /\ \A i \in after : out.m.b.cursor.col <= i
           /\ (c >= LastChar(lines[L + 1]) /\ next # {}) =>
                /\ out.m.b.cursor.line = L + 1
                /\ out.m.b.cursor.col \in next
                /\ \A i \in next : out.m.b.cursor.col <= i

\* the motion keys Normal and Visual mode share
MotionEvents ==
    {Char(r) : r \in {"h", "j", "k", "l", "0", "$", "w", "b", "e"}}
        \cup {Key(a) : a \in {"Up", "Down", "Left", "Right", "Home", "End"}}

\* C27 as claimed (SpecKey): from every buffer state, each motion key in
\* Visual mode leaves the cursor where the same key in Normal mode (no g
\* pending) leaves it from that buffer state, changes no line and asks for
\* no mode switch.
VisualMotionsAsNormal ==
    (pc = "key" /\ currentMode = ModeVisual) =>
        \A event \in MotionEvents :
            LET visual == ManagerHandleInput(Ed, event, "ok", <<>>)
                normal == ManagerHandleInput(
                              [Ed EXCEPT !.currentMode = ModeNormal, !.gPrefix = FALSE],
                              event, "ok", <<>>)
            IN /\ visual.panic = normal.panic
               /\ visual.m.b.cursor = normal.m.b.cursor
               /\ visual.m.b.lines = lines
               /\ visual.res = ModeResult(NoMode, TRUE, FALSE)

(***************************************************************************)
(* Properties of Command mode and of the commands.                         *)
(***************************************************************************)
\* the command line without its last character
WithoutLastChar(cmdLine) ==
    LET chars == Runes(cmdLine) IN EncodeAll(SubSeq(chars, 1, Len(chars) - 1))

\* the text, the file name and the modified flag of a buffer; the cursor,
\* which Normal mode clamps when it is entered, is left out
Content(b) == [lines |-> b.lines, filename |-> b.filename, modified |-> b.modified]

\* C28 as claimed (SpecKey): in Command mode a character event leaves the
\* command line with the character appended, and Backspace leaves it without
\* its last character (empty when it was empty), both with the mode kept;
\* Enter leaves the command line empty and the buffer as the Command
\* Executor leaves it; Escape and the interrupt leave the command line empty,
\* the content of the buffer as it was and Normal mode active.
CommandLineEditing ==
    (pc = "key" /\ currentMode = ModeCommand) =>
        /\ \A ch \in CmdRunes :
              LET out == ManagerHandleInput(Ed, Char(ch), "ok", <<>>)
              IN /\ out.m.commandLine = commandLine \o Encode(ch)
                 /\ out.m.currentMode = ModeCommand
                 /\ out.m.b = Buf
        /\ LET out == ManagerHandleInput(Ed, Key("Backspace"), "ok", <<>>)
           IN /\ out.m.commandLine = WithoutLastChar(commandLine)
              /\ out.m.currentMode = ModeCommand
              /\ out.m.b = Buf
        /\ \A io \in SaveOutcomes :
              LET out == ManagerHandleInput(Ed, Key("Enter"), io, <<>>)
              IN /\ out.m.commandLine = <<>>
                 /\ Content(out.m.b) = IF commandLine = <<>> THEN Content(Buf)
                                       ELSE Content(Execute(commandLine, Buf, io).b)
        /\ \A a \in {"Escape", "CtrlC"} :
              LET out == ManagerHandleInput(Ed, Key(a), "ok", <<>>)
              IN /\ out.m.commandLine = <<>>
                 /\ Content(out.m.b) = Content(Buf)
                 /\ out.res = ModeResult(ModeNormal, TRUE, FALSE)
                 /\ out.m.currentMode = ModeNormal

\* what the Execute of the command registered under a name returns
CommandExecute(cmd, args, b, io) ==
    CASE cmd = "write" -> WriteExecute(args, b, io)
      [] cmd = "quit" -> QuitExecute(args, b)
      [] cmd = "quit!" -> ForceQuitExecute(args, b)
      [] cmd = "wq" -> WriteQuitExecute(args, b, io)
      [] cmd = "edit" -> EditExecute(args, b)
      [] cmd = "new" -> NewExecute(args, b)
      [] cmd = "ai" -> AIExecute(args, b)

\* C29 (SpecKey): for the command line typed and every outcome of the file
\* system, Execute returns a failure that asks for the mode switch when the
\* line has no word or its first word names no command, and otherwise what
\* the command returns, with the mode switch asked for unless the command
\* asks for the exit; so its result asks for the exit or for the mode
\* switch, and Enter in Command mode asks for the exit or for Normal mode and
\* never leaves Command mode active.
ExecuteAlwaysLeavesCommandMode ==
    (pc = "key" /\ currentMode = ModeCommand) =>
        \A io \in SaveOutcomes :
            LET r == Execute(commandLine, Buf, io).r
                words == Fields(commandLine)
                out == ManagerHandleInput(Ed, Key("Enter"), io, <<>>)
            IN /\ (words = <<>> \/ Head(words) \notin DOMAIN Registry) =>
                     (~r.Success /\ r.SwitchMode /\ ~r.ExitEditor)
               /\ (words # <<>> /\ Head(words) \in DOMAIN Registry) =>
                     LET h == CommandExecute(Registry[Head(words)], Tail(words),
                                             Buf, io).r
                     IN r = IF h.ExitEditor THEN h ELSE [h EXCEPT !.SwitchMode = TRUE]
               /\ r.ExitEditor \/ r.SwitchMode
               /\ ~out.panic
               /\ out.res.ExitEditor \/ out.res.SwitchToMode = ModeNormal
               /\ out.res.ExitEditor \/ out.m.currentMode = ModeNormal

\* Enter was pressed on a command line that names no command: the message
\* says so and Normal mode is active
UnknownCommandLeftToNormal ==
    /\ pc = "done"
    /\ callArgs[1] = Key("Enter")
    /\ callArgs[4] = <<"z">>
    /\ message = "Unknown command"
    /\ commandLine = <<>>
    /\ currentMode = ModeNormal

\* C30 (SpecKey): when Enter is pressed on a command line whose command is
\* w, then with no argument and no file name of the buffer the command fails
\* and the buffer keeps its content; with no argument and a file name it
\* does what Save does, with an argument what SaveAs of that name does; the
\* text never changes, and whenever the command succeeds the buffer is not
\* modified and has the name written to, which is the argument or else the
\* name it had.
WriteContract ==
    (/\ pc = "key" /\ currentMode = ModeCommand
     /\ Fields(commandLine) # <<>> /\ Head(Fields(commandLine)) = <<"w">>) =>
        \A io \in SaveOutcomes :
            LET args == Tail(Fields(commandLine))
                d == Execute(commandLine, Buf, io)
                out == ManagerHandleInput(Ed, Key("Enter"), io, <<>>)
            IN /\ Content(out.m.b) = Content(d.b)
               /\ d.b.lines = lines
               /\ (args = <<>> /\ filename = "") =>
                     (~d.r.Success /\ d.b = Buf)
               /\ (args = <<>> /\ filename # "") =>
                     /\ d.b = Save(Buf, NoDisk, io).b
                     /\ d.r.Success = (Save(Buf, NoDisk, io).err = "")
               /\ args # <<>> =>
                     /\ d.b = SaveAs(Buf, PathOf(args[1]), NoDisk, io).b
                     /\ d.r.Success = (SaveAs(Buf, PathOf(args[1]), NoDisk, io).err = "")
               /\ d.r.Success =>
                     /\ ~d.b.modified
                     /\ d.b.filename = IF args # <<>> THEN PathOf(args[1]) ELSE filename
                     /\ d.b.filename # ""
               /\ ~d.r.Success => Content(d.b) = Content(Buf)

\* w f was entered on a modified buffer without a file name: the buffer has
\* the name f, is not modified and holds the text it held
WroteUnderNewName ==
    /\ pc = "done"
    /\ callArgs[1] = Key("Enter")
    /\ callArgs[2] = "ok"
    /\ callArgs[4] = <<"w", " ", "f">>
    /\ orig.filename = ""
    /\ orig.modified
    /\ message = "File written"
    /\ filename = "f"
    /\ ~modified
    /\ lines = orig.lines
    /\ currentMode = ModeNormal

\* the argument lists a write is given: none, or one file name
WriteArgs == {<<>>, << <<"f">> >>}

\* C31 (SpecKey): on every buffer, every argument list and every outcome of
\* the file system, write-quit leaves the buffer as write with the same
\* arguments leaves it; when that write fails its result is the write's
\* result, with no exit asked for and the modified flag as it was; when it
\* succeeds the result asks for the exit and the buffer is not modified.
\* Enter on the command lines wq and x asks for the exit exactly when the
\* write succeeds.
WriteQuitContract ==
    pc = "key" =>
        \A io \in SaveOutcomes :
            /\ \A args \in WriteArgs :
                  LET w == WriteExecute(args, Buf, io)
                      wq == WriteQuitExecute(args, Buf, io)
                  IN /\ wq.b = w.b
                     /\ ~w.r.Success =>
                           /\ wq.r = w.r
                           /\ ~wq.r.Success /\ ~wq.r.ExitEditor
                           /\ wq.b.modified = modified
                     /\ w.r.Success =>
                           /\ wq.r.Success /\ wq.r.ExitEditor
                           /\ ~wq.b.modified
            /\ (/\ currentMode = ModeCommand /\ Fields(commandLine) # <<>>
                /\ Head(Fields(commandLine)) \in {<<"w", "q">>, <<"x">>}) =>
                  LET out == ManagerHandleInput(Ed, Key("Enter"), io, <<>>)
                  IN /\ out.res.ExitEditor =
                          WriteExecute(Tail(Fields(commandLine)), Buf, io).r.Success
                     /\ ~out.res.ExitEditor =>
                          (out.m.b.modified = modified /\ out.m.currentMode = ModeNormal)

\* wq was entered on a modified buffer with a file name and the write
\* failed: the editor goes on in Normal mode with the buffer still modified
WriteQuitFailedStays ==
    /\ pc = "done"
    /\ callArgs[1] = Key("Enter")
    /\ callArgs[2] = "writefail"
    /\ callArgs[4] = <<"w", "q">>
    /\ orig.modified /\ orig.filename = "f"
    /\ message = "Error writing file"
    /\ modified
    /\ lines = orig.lines
    /\ currentMode = ModeNormal

(***************************************************************************)
(* Further properties of the Buffer and of the editor.                     *)
(***************************************************************************)
\* C39 (SpecRT): from every buffer whose cursor is on a line and within it,
\* InsertLine() and then Backspace() both succeed and leave the lines, in
\* number and content, and the cursor as they were before the InsertLine.
SplitBackspaceInverse ==
    /\ pc = "split" => lastErr = ""
    /\ pc = "splitbs" =>
          (lastErr = "" /\ lines = orig.lines /\ cursor = orig.cursor)

\* a line between two others was split between its two bytes and made whole
\* again
MergedAfterSplitInside ==
    /\ pc = "splitbs"
    /\ Len(orig.lines) = 3
    /\ orig.cursor = Pos(1, 1)
    /\ orig.lines[2] = <<"a", " ">>
    /\ lines = orig.lines
    /\ cursor = orig.cursor

(***************************************************************************)
(* SpecReg: commands registered in a registry made by NewCommandRegistry.  *)
(* callArgs is the list of the commands registered since.                  *)
(***************************************************************************)
\* most commands registered after the built-in ones
MaxRegs == 4

\* commands whose keys collide with built-in keys and with each other
CustomCommands ==
    { Command(<<"w">>, << <<"x">> >>),
      Command(<<"m","y">>, << <<"q">>, <<"w">> >>),
      Command(<<"w","r","i","t","e">>, <<>>),
      Command(<<"z","z">>, << <<"z","z">> >>) }

InitReg ==
    /\ SetBufInit(New)
    /\ SetModesInit(NewModeManager(New))
    /\ InitServices
    /\ disk = NoDisk
    /\ lastOp = "New"
    /\ lastErr = ""
    /\ pc = "reg"
    /\ orig = New
    /\ callArgs = <<>>

Register ==
    /\ pc = "reg"
    /\ Len(callArgs) < MaxRegs
    /\ \E cmd \in CustomCommands :
          /\ commands' = RegisterCommand(commands, cmd)
          /\ callArgs' = Append(callArgs, cmd)
    /\ UNCHANGED <<disk, lastOp, lastErr, pc, orig>>
    /\ UNCHANGED bufvars
    /\ UNCHANGED modevars
    /\ UNCHANGED <<providers, activeProvider, resultExitEditor, savedContent>>
    /\ UNCHANGED lspvars

NextReg == Register

SpecReg == InitReg /\ [][NextReg]_vars

(***************************************************************************)
(* Properties of the command registry and of the parser.                   *)
(***************************************************************************)
KeysOf(cmd) == {cmd.name} \cup {cmd.aliases[i] : i \in 1..Len(cmd.aliases)}

\* the keys asked for: every key some command declares, and two that none does
AskedKeys ==
    UNION {KeysOf(c) : c \in CustomCommands}
    \cup UNION {KeysOf(BuiltinCommands[i]) : i \in 1..Len(BuiltinCommands)}
    \cup {<<"u","n","k","n","o","w","n">>, <<>>}

\* C32 (SpecReg): after the built-in registrations and any registrations that
\* follow, every key resolves to the command registered last among those
\* that declare it, and a key no registered command declares resolves to
\* nothing; a registration changes only the keys of the command registered;
\* before any other registration every name and alias of a built-in
\* command resolves to that command.
RegistryContract ==
    LET history == BuiltinCommands \o callArgs
        declaring(k) == {i \in 1..Len(history) : k \in KeysOf(history[i])}
        last(S) == CHOOSE i \in S : \A j \in S : j <= i
    IN /\ \A k \in AskedKeys :
            IF declaring(k) = {} THEN ~GetCommand(commands, k).exists
            ELSE /\ GetCommand(commands, k).exists
                 /\ GetCommand(commands, k).cmd = history[last(declaring(k))]
       /\ DOMAIN commands \subseteq AskedKeys
       /\ \A cmd \in CustomCommands : \A k \in AskedKeys \ KeysOf(cmd) :
            GetCommand(RegisterCommand(commands, cmd), k) = GetCommand(commands, k)
       /\ callArgs = <<>> =>
            \A i \in 1..Len(BuiltinCommands) : \A k \in KeysOf(BuiltinCommands[i]) :
                GetCommand(commands, k).cmd = BuiltinCommands[i]

\* the key write was taken over by a later command while its alias w, taken
\* over earlier by another, and the untouched key q still resolve as before
LaterRegistrationWon ==
    /\ pc = "reg"
    /\ callArgs = << Command(<<"w">>, << <<"x">> >>), Command(<<"w","r","i","t","e">>, <<>>) >>
    /\ commands[<<"w","r","i","t","e">>] = Command(<<"w","r","i","t","e">>, <<>>)
    /\ commands[<<"w">>] = Command(<<"w">>, << <<"x">> >>)
    /\ commands[<<"x">>] = Command(<<"w">>, << <<"x">> >>)
    /\ commands[<<"w","q">>] = BuiltinCommands[4]
    /\ commands[<<"q">>] = BuiltinCommands[2]
    /\ <<"u","n","k","n","o","w","n">> \notin DOMAIN commands

\* the ex commands of the README's tables
DocumentedCommands ==
    { <<"w">>, <<"q">>, <<"w","q">>, <<"q","!">>, <<"e">>, <<"n","e","w">>,
      <<"a","i">>, <<"a","i","c">>, <<"a","i","e">>, <<"a","i","r">>, <<"a","i","p">>,
      <<"c","o","n","f","i","g">>, <<"c","o","n","f","i","g","g","e","n">>,
      <<"c","o","n","f","i","g","r","e","l","o","a","d">> }

\* C34 (SpecReg): in the registry as NewCommandRegistry leaves it every
\* documented ex command resolves to a command, and executing it does not
\* give the unknown-command result.
DocumentedCommandsRegistered ==
    callArgs = <<>> =>
        \A name \in DocumentedCommands :
            /\ GetCommand(commands, name).exists
            /\ Execute(name, Buf, "ok").r.Message # "Unknown command"

\* the executor's table of commands has the keys of the registry
RegistryKeysAgree == DOMAIN Registry = DOMAIN NewCommandRegistry

(***************************************************************************)
(* SpecParse: ParseCommand called once with a command line.  callArgs is   *)
(* the line and, after the call, the line and what the call returned.      *)
(***************************************************************************)
\* most bytes of a command line
MaxCmdLen == 4

ParseBytes == {"w", "s", "/", " ", "tab"}

InitParse ==
    /\ SetBufInit(New)
    /\ SetModesInit(NewModeManager(New))
    /\ InitServices
    /\ disk = NoDisk
    /\ lastOp = "New"
    /\ lastErr = ""
    /\ pc = "parse"
    /\ orig = New
    /\ \E cmdLine \in SeqsUpTo(ParseBytes, MaxCmdLen) : callArgs = <<cmdLine>>

Parse ==
    /\ pc = "parse"
    /\ pc' = "parsed"
    /\ lastOp' = "ParseCommand"
    /\ lastErr' = ParseCommand(callArgs[1]).err
    /\ callArgs' = <<callArgs[1], ParseCommand(callArgs[1])>>
    /\ UNCHANGED <<disk, orig>>
    /\ UNCHANGED bufvars
    /\ UNCHANGED modevars
    /\ UNCHANGED svcvars

NextParse == Parse

SpecParse == InitParse /\ [][NextParse]_vars

\* the positions of a line where a token starts, and the token there
TokenStarts(line) ==
    {i \in 1..Len(line) : line[i] \notin AsciiSpaces /\ (i = 1 \/ line[i - 1] \in AsciiSpaces)}
TokenFrom(line, i) ==
    LET last == CHOOSE j \in i..Len(line) :
                    /\ \A k \in i..j : line[k] \notin AsciiSpaces
                    /\ (j = Len(line) \/ line[j + 1] \in AsciiSpaces)
    IN SubSeq(line, i, last)

\* C33 (SpecParse): ParseCommand fails, with the empty-command error, exactly
\* on the lines that are empty or all white space; otherwise the name and
\* the arguments are the white-space-delimited tokens of the line in order,
\* none of them empty or holding white space, and a line without white
\* space is returned whole as the name with no arguments.
ParseContract ==
    pc = "parsed" =>
        LET line == callArgs[1]
            r == callArgs[2]
            tokens == <<r.name>> \o r.args
            starts == TokenStarts(line)
        IN /\ r.err \in {"", "empty command"}
           /\ r.err = "empty command" <=> \A i \in 1..Len(line) : line[i] \in AsciiSpaces
           /\ r.err = "" =>
                /\ Len(tokens) = Cardinality(starts)
                /\ \A i \in starts :
                      tokens[Cardinality({j \in starts : j <= i})] = TokenFrom(line, i)
                /\ \A k \in 1..Len(tokens) :
                      /\ tokens[k] # <<>>
                      /\ \A i \in 1..Len(tokens[k]) : tokens[k][i] \notin AsciiSpaces
                /\ (\A i \in 1..Len(line) : line[i] \notin AsciiSpaces) =>
                      (r.name = line /\ r.args = <<>>)

\* a line with slashes and no white space came back whole, as the name
SubstituteParsedWhole ==
    /\ pc = "parsed"
    /\ callArgs[1] = <<"s", "/", "w", "/">>
    /\ callArgs[2] = [name |-> <<"s", "/", "w", "/">>, args |-> <<>>, err |-> ""]

(***************************************************************************)
(* SpecAI: an AIManager on which providers are registered, the active      *)
(* provider is set and requests are made.  After a request callArgs is the *)
(* provider whose response was returned.                                   *)
(***************************************************************************)
\* two of the provider types the package names and one it does not
ProviderTypes == {"ollama", "openai", "provider1"}

AM == [providers |-> providers, activeProvider |-> activeProvider]

InitAI ==
    /\ SetBufInit(New)
    /\ SetModesInit(NewModeManager(New))
    /\ InitServices
    /\ disk = NoDisk
    /\ lastOp = "New"
    /\ lastErr = ""
    /\ pc = "ai"
    /\ orig = New
    /\ callArgs = <<>>

\* a call on the manager: it leaves the manager am and returns err
AICalled(name, am, err, a) ==
    /\ pc = "ai"
    /\ providers' = am.providers
    /\ activeProvider' = am.activeProvider
    /\ lastOp' = name
    /\ lastErr' = err
    /\ callArgs' = a
    /\ UNCHANGED <<disk, pc, orig, commands, resultExitEditor, savedContent>>
    /\ UNCHANGED lspvars
    /\ UNCHANGED bufvars
    /\ UNCHANGED modevars

AIRegisterProvider ==
    \E name \in ProviderTypes, available \in BOOLEAN, fails \in BOOLEAN :
        AICalled("RegisterProvider", RegisterProvider(AM, Provider(name, available, fails)),
                 "", <<name>>)

AISetActiveProvider ==
    \E providerType \in ProviderTypes :
        AICalled("SetActiveProvider", SetActiveProvider(AM, providerType).am,
                 SetActiveProvider(AM, providerType).err, <<providerType>>)

AIRequest == AICalled("Request", AM, Request(AM).err, <<Request(AM).provider>>)

NextAI ==
    \/ AIRegisterProvider
    \/ AISetActiveProvider
    \/ AIRequest

SpecAI == InitAI /\ [][NextAI]_vars

(***************************************************************************)
(* Properties of the AI manager.                                           *)
(***************************************************************************)
\* the registered providers that are available, and those whose call succeeds
AvailableProviders == {n \in DOMAIN providers : providers[n].available}
Succeeding == {n \in AvailableProviders : ~providers[n].fails}

\* C35 (SpecAI): a request returns the response of the active provider when
\* that provider is available and its call succeeds; otherwise the response
\* of another registered, available provider whose call succeeds; and an
\* error only when no registered available provider succeeds.
RequestFallbackContract ==
    lastOp = "Request" =>
        /\ (activeProvider \in Succeeding) => (lastErr = "" /\ callArgs = <<activeProvider>>)
        /\ lastErr = "" => callArgs[1] \in Succeeding
        /\ lastErr # "" <=> Succeeding = {}

\* the same for the providers of the types the package names
RequestFallbackNamedTypes ==
    (lastOp = "Request" /\ DOMAIN providers \subseteq {"ollama", "openai"}) =>
        /\ (activeProvider \in Succeeding) => (lastErr = "" /\ callArgs = <<activeProvider>>)
        /\ lastErr = "" => callArgs[1] \in Succeeding
        /\ lastErr # "" <=> Succeeding = {}

(***************************************************************************)
(* SpecMain: the event loop of main.  One step is one turn of the loop     *)
(* with a key event: ModeManager.HandleInput, the fallback for an event    *)
(* no mode handled, and the loop test.  savedContent follows the content  *)
(* written by the saves of the turn.                                       *)
(***************************************************************************)
\* most lines and most bytes (over all lines) of a buffer of the loop, and
\* most bytes of its command line
MaxMainLines == 2
MaxMainBytes == 1
MaxMainCmd == 2

\* UI.IsRunning: NewUI and NewScreen set both flags, and nothing the loop
\* calls clears them (Close is deferred to the return of main, PostQuit is
\* not called)
IsRunning == TRUE

\* handleFallbackKeyEvent: the buffer it leaves and whether it asks to quit
handleFallbackKeyEvent(event, b, io) ==
    IF event.Action \in {"Quit", "CtrlC"} THEN [b |-> b, quit |-> TRUE]
    ELSE IF event.Action = "CtrlS"
    THEN [b |-> IF b.filename # "" THEN Save(b, NoDisk, io).b ELSE b, quit |-> FALSE]
    ELSE [b |-> b, quit |-> FALSE]

\* the turn wrote the buffer to its file: through Ctrl-S in Insert mode,
\* through a write command, or through Ctrl-S in the fallback
SavedBy(m, event, io, out) ==
    \/ /\ m.currentMode = ModeInsert
       /\ event.Action = "CtrlS"
       /\ out.res.Handled
       /\ m.b.filename # ""
       /\ Save(m.b, NoDisk, io).err = ""
    \/ /\ m.currentMode = ModeCommand
       /\ event.Action = "Enter"
       /\ Execute(m.commandLine, m.b, io).r.Success
       /\ Execute(m.commandLine, m.b, io).r.Message
             \in {"File written", "File written and editor closed"}
    \/ /\ ~out.panic /\ ~out.res.ExitEditor /\ ~out.res.Handled
       /\ event.Action = "CtrlS"
       /\ out.m.b.filename # ""
       /\ Save(out.m.b, NoDisk, io).err = ""

\* the rest of the turn after HandleInput has returned out
Dispatched(m, event, io, out) ==
    LET after == IF ~out.panic /\ ~out.res.ExitEditor /\ ~out.res.Handled
                 THEN handleFallbackKeyEvent(event, out.m.b, io).b
                 ELSE out.m.b
    IN /\ Len(after.lines) <= MaxMainLines
       /\ SumLen(after.lines) <= MaxMainBytes
       /\ Len(out.m.commandLine) <= MaxMainCmd
       /\ SetBuf(after)
       /\ SetModes(out.m)
       /\ resultExitEditor' = out.res.ExitEditor
       /\ savedContent' = IF SavedBy(m, event, io, out) THEN String(after) ELSE savedContent
       /\ pc' = IF out.panic THEN "panic" ELSE IF IsRunning THEN "run" ELSE "exited"

\* main makes the buffer with New or NewFromFile and the modes with
\* NewModeManager; a Command mode is there once RegisterMode has added it
InitMain ==
    /\ \/ SetBufInit(New)
       \/ \E p \in Paths, content \in SeqsUpTo(LineBytes \cup {"LF"}, MaxMainBytes) :
             LET r == NewFromFile(p, [q \in Paths |-> content], "ok")
             IN /\ Len(r.b.lines) <= MaxMainLines
                /\ SetBufInit(r.b)
    /\ \/ SetModesInit(NewModeManager(Buf))
       \/ SetModesInit(RegisterMode(NewModeManager(Buf), ModeCommand))
    /\ disk = NoDisk
    /\ lastOp = "New"
    /\ lastErr = ""
    /\ pc = "run"
    /\ orig = New
    /\ callArgs = <<>>
    /\ InitManagers
    /\ resultExitEditor = FALSE
    /\ savedContent = String(Buf)

\* the events of the loop: in Command mode the letters of the quit and write
\* commands
MainEvents(mode) ==
    IF mode = ModeCommand
    THEN {Char(r) : r \in {"q", "w", "!"}} \cup {Key(a) : a \in KeyActions}
    ELSE Events(mode)

LoopTurn ==
    /\ pc = "run"
    /\ \E event \in MainEvents(currentMode) :
       \E io \in IoFor(event), items \in ItemsFor(event) :
          Dispatched(Ed, event, io, ManagerHandleInput(Ed, event, io, items))
    /\ UNCHANGED <<disk, lastOp, lastErr, orig, callArgs>>
    /\ UNCHANGED <<commands, providers, activeProvider>>
    /\ UNCHANGED lspvars

NextMain == LoopTurn

SpecMain == InitMain /\ [][NextMain]_vars

(***************************************************************************)
(* Properties of the event loop.                                           *)
(***************************************************************************)
\* C36 (SpecMain): once HandleInput has returned a result with ExitEditor
\* set, the loop has ended: it does not wait for another input event.
ExitEndsLoop ==
    resultExitEditor => pc # "run"

Published == {"d1", "d2"}

InitLSP ==
    /\ SetBufInit(NewFromFile("f", [q \in Paths |-> <<"a">>], "ok").b)
    /\ SetModesInit(NewModeManager(Buf))
    /\ InitServices
    /\ disk = NoDisk
    /\ lastOp = "New"
    /\ lastErr = ""
    /\ pc = "lsp"
    /\ orig = New
    /\ callArgs = <<>>

\* what no step of the goroutines changes
LSPFrame ==
    /\ pc = "lsp"
    /\ UNCHANGED <<disk, pc, orig, callArgs, commands, providers, activeProvider,
                   resultExitEditor, savedContent>>
    /\ UNCHANGED bufvars
    /\ UNCHANGED modevars

\* Start: c.mu.Lock()
ClientStartLock ==
    /\ LSPFrame
    /\ lspPc.caller = "idle"
    /\ mu = ""
    /\ mu' = "caller"
    /\ lspPc' = [lspPc EXCEPT !.caller = "start"]
    /\ lastOp' = "Start"
    /\ UNCHANGED <<lastErr, initialized, serverUp, params, diagnosticsCache,
                   bufDiagnostics, overlap>>

\* Start up to conn.Go: the error returns run the deferred Unlock
ClientStartProcess ==
    /\ LSPFrame
    /\ lspPc.caller = "start"
    /\ \E started \in BOOLEAN :
          IF initialized \/ ~started
          THEN /\ mu' = ""
               /\ lspPc' = [lspPc EXCEPT !.caller = "idle"]
               /\ lastErr' = IF initialized THEN "client already started"
                             ELSE "failed to start language server"
               /\ UNCHANGED serverUp
          ELSE /\ serverUp' = TRUE
               /\ lspPc' = [lspPc EXCEPT !.caller = "initialize", !.conn = "recv"]
               /\ UNCHANGED <<mu, lastErr>>
    /\ UNCHANGED <<lastOp, initialized, params, diagnosticsCache, bufDiagnostics, overlap>>

\* Start from c.initialize: on an error Start calls c.Stop()
ClientStartInitialize ==
    /\ LSPFrame
    /\ lspPc.caller = "initialize"
    /\ \E handshake \in {"ok", "fail"} :
          IF handshake = "ok"
          THEN /\ initialized' = TRUE
               /\ mu' = ""
               /\ lspPc' = [lspPc EXCEPT !.caller = "idle"]
               /\ lastErr' = ""
          ELSE /\ lspPc' = [lspPc EXCEPT !.caller = "startStopLock"]
               /\ UNCHANGED <<initialized, mu, lastErr>>
    /\ UNCHANGED <<lastOp, serverUp, params, diagnosticsCache, bufDiagnostics, overlap>>

\* Stop: c.mu.Lock(), called by the caller or from Start; sync.Mutex is not
\* reentrant, so the goroutine waits while anyone holds it
ClientStopLock ==
    /\ LSPFrame
    /\ lspPc.caller \in {"idle", "startStopLock"}
    /\ mu = ""
    /\ mu' = "caller"
    /\ lspPc' = [lspPc EXCEPT !.caller = IF lspPc.caller = "idle" THEN "stop"
                                         ELSE "startStop"]
    /\ lastOp' = IF lspPc.caller = "idle" THEN "Stop" ELSE lastOp
    /\ UNCHANGED <<lastErr, initialized, serverUp, params, diagnosticsCache,
                   bufDiagnostics, overlap>>

\* Stop after the lock: shutdown, close and kill when initialized; back in
\* Start the error is returned
ClientStopBody ==
    /\ LSPFrame
    /\ lspPc.caller \in {"stop", "startStop"}
    /\ serverUp' = IF initialized THEN FALSE ELSE serverUp
    /\ initialized' = FALSE
    /\ mu' = ""
    /\ lspPc' = [lspPc EXCEPT !.caller = "idle"]
    /\ lastErr' = IF lspPc.caller = "stop" THEN "" ELSE "failed to initialize"
    /\ UNCHANGED <<lastOp, params, diagnosticsCache, bufDiagnostics, overlap>>

\* Handle: a publishDiagnostics notification arrives on the open connection
HandleNotification ==
    /\ LSPFrame
    /\ lspPc.conn = "recv"
    /\ serverUp
    /\ \E d \in Published : params' = d
    /\ lspPc' = [lspPc EXCEPT !.conn = "lock"]
    /\ UNCHANGED <<lastOp, lastErr, mu, initialized, serverUp, diagnosticsCache,
                   bufDiagnostics, overlap>>

\* Handle: client.diagnostics is stored and onDiagnostics read under the
\* mutex, which is released before the handler is called
HandleStore ==
    /\ LSPFrame
    /\ lspPc.conn = "lock"
    /\ mu = ""
    /\ lspPc' = [lspPc EXCEPT !.conn = "handler"]
    /\ UNCHANGED <<lastOp, lastErr, mu, initialized, serverUp, params, diagnosticsCache,
                   bufDiagnostics, overlap>>

\* the diagnostics handler of main, run by Handle on the conn goroutine:
\* the assignment to diagnosticsCache[filename] begins, under no lock
DiagnosticsWriteBegin ==
    /\ LSPFrame
    /\ lspPc.conn = "handler"
    /\ lspPc' = [lspPc EXCEPT !.conn = "writing"]
    /\ overlap' = (overlap \/ lspPc.main = "reading")
    /\ UNCHANGED <<lastOp, lastErr, mu, initialized, serverUp, params, diagnosticsCache,
                   bufDiagnostics>>

\* the assignment ends and Handle replies
DiagnosticsWriteEnd ==
    /\ LSPFrame
    /\ lspPc.conn = "writing"
    /\ diagnosticsCache' = params
    /\ lspPc' = [lspPc EXCEPT !.conn = "recv"]
    /\ UNCHANGED <<lastOp, lastErr, mu, initialized, serverUp, params, bufDiagnostics,
                   overlap>>

\* the loop after an event: the read of diagnosticsCache[buf.Filename()]
\* begins, under no lock
MainReadBegin ==
    /\ LSPFrame
    /\ lspPc.main = "wait"
    /\ filename # ""
    /\ lspPc' = [lspPc EXCEPT !.main = "reading"]
    /\ overlap' = (lspPc.conn = "writing")
    /\ UNCHANGED <<lastOp, lastErr, mu, initialized, serverUp, params, diagnosticsCache,
                   bufDiagnostics>>

\* the read ends.  A read that met a write is a data race on a Go map: it
\* gives the old entry, the new one, or the runtime ends the process
\* (fatal error: concurrent map read and map write).
MainReadEnd ==
    /\ LSPFrame
    /\ lspPc.main = "reading"
    /\ \E seen \in (IF overlap THEN {diagnosticsCache, params, "fatal"}
                    ELSE {diagnosticsCache}) :
          /\ bufDiagnostics' = IF seen \in {"none", "fatal"} THEN bufDiagnostics ELSE seen
          /\ lspPc' = [lspPc EXCEPT !.main = IF seen = "fatal" THEN "fatal" ELSE "wait"]
    /\ overlap' = FALSE
    /\ UNCHANGED <<lastOp, lastErr, mu, initialized, serverUp, params, diagnosticsCache>>

NextLSP ==
    \/ ClientStartLock
    \/ ClientStartProcess
    \/ ClientStartInitialize
    \/ ClientStopLock
    \/ ClientStopBody
    \/ HandleNotification
    \/ HandleStore
    \/ DiagnosticsWriteBegin
    \/ DiagnosticsWriteEnd
    \/ MainReadBegin
    \/ MainReadEnd

SpecLSP == InitLSP /\ [][NextLSP]_vars

(***************************************************************************)
(* Properties of the language server client and of the diagnostics.        *)
(***************************************************************************)
\* C37 (SpecLSP): when the handshake fails Start never waits for the mutex
\* of the client, which it holds itself, and once it has returned the
\* error the server is stopped, the client is not initialized and the mutex
\* is free, so that Start can be called again.
StartFailureCleansUp ==
    /\ ~(lspPc.caller = "startStopLock" /\ mu = "caller")
    /\ (lastOp = "Start" /\ lspPc.caller = "idle" /\ lastErr = "failed to initialize") =>
          (~serverUp /\ ~initialized /\ mu # "caller")

\* C38 (SpecLSP): the diagnostics handler never writes the diagnostics
\* cache while the event loop reads it, and the loop is never ended by
\* such an access.
CacheAccessSerialized ==
    /\ ~(lspPc.conn = "writing" /\ lspPc.main = "reading")
    /\ lspPc.main # "fatal"

====
